---- MODULE Spec2Model ----
(***************************************************************************)
(* Verification model of the english-learning-backend alignment core:      *)
(* the audio segment planner (audio-processing.service.ts), the            *)
(* paragraph/segment matcher and the text normaliser (document.service.ts).*)
(*                                                                         *)
(* Every time value of the program is a JavaScript number, i.e. an         *)
(* IEEE-754 binary64 value.  The model keeps that arithmetic: a number is  *)
(* a record [cls, m, e] standing for m * 2^e with m an odd natural of at   *)
(* most 53 bits (kept as little-endian limbs, because a mantissa does not  *)
(* fit a model-checker integer), and +, -, *, / round to nearest, ties to  *)
(* even, exactly as the JavaScript operators do.  Exponent overflow and    *)
(* subnormals cannot occur for the magnitudes used here.                   *)
(***************************************************************************)
EXTENDS Integers, Sequences, FiniteSets, TLC

(***************************************************************************)
(* Natural numbers of arbitrary size: little-endian sequences of limbs,    *)
(* no leading (high) zero limb; << >> is zero.                             *)
(***************************************************************************)
LimbBits == 10

LimbBase == 2^LimbBits

Pow2(n) == 2^n

RECURSIVE BigNorm(_)
BigNorm(x) ==
  IF x = << >> THEN << >>
  ELSE IF x[Len(x)] = 0 THEN BigNorm(SubSeq(x, 1, Len(x) - 1))
  ELSE x

RECURSIVE BigFromInt(_)
BigFromInt(n) ==
  IF n = 0 THEN << >> ELSE <<n % LimbBase>> \o BigFromInt(n \div LimbBase)

RECURSIVE BigToInt(_)
BigToInt(x) ==
  IF x = << >> THEN 0 ELSE Head(x) + LimbBase * BigToInt(Tail(x))

LimbHead(x) == IF x = << >> THEN 0 ELSE Head(x)

LimbTail(x) == IF x = << >> THEN << >> ELSE Tail(x)

RECURSIVE BigAddC(_, _, _)
BigAddC(x, y, c) ==
  IF x = << >> /\ y = << >>
  THEN (IF c = 0 THEN << >> ELSE <<c>>)
  ELSE LET s == LimbHead(x) + LimbHead(y) + c
       IN  <<s % LimbBase>> \o BigAddC(LimbTail(x), LimbTail(y), s \div LimbBase)

BigAdd(x, y) == BigAddC(x, y, 0)

\* x - y for x >= y, limb by limb with a borrow.
RECURSIVE BigSubB(_, _, _)
BigSubB(x, y, b) ==
  IF x = << >> THEN << >>
  ELSE LET d == Head(x) - LimbHead(y) - b
       IN  IF d < 0
           THEN <<d + LimbBase>> \o BigSubB(Tail(x), LimbTail(y), 1)
           ELSE <<d>> \o BigSubB(Tail(x), LimbTail(y), 0)

BigSub(x, y) == BigNorm(BigSubB(x, y, 0))

\* x * k + c for a small natural k (k < 2^20).
RECURSIVE BigMulSmallC(_, _, _)
BigMulSmallC(x, k, c) ==
  IF x = << >> THEN BigFromInt(c)
  ELSE LET p == Head(x) * k + c
       IN  <<p % LimbBase>> \o BigMulSmallC(Tail(x), k, p \div LimbBase)

BigMulSmall(x, k) == IF k = 0 THEN << >> ELSE BigMulSmallC(x, k, 0)

RECURSIVE BigMul(_, _)
BigMul(x, y) ==
  IF y = << >> \/ x = << >> THEN << >>
  ELSE BigAdd(BigMulSmall(x, Head(y)),
              LET r == BigMul(x, Tail(y)) IN IF r = << >> THEN << >> ELSE <<0>> \o r)

\* Quotient and remainder of x by a small natural n (0 < n < 2^20), from the
\* most significant limb down; r is the running remainder.
RECURSIVE BigDivSmallR(_, _, _)
BigDivSmallR(x, n, r) ==
  IF x = << >> THEN [q |-> << >>, r |-> r]
  ELSE LET cur  == r * LimbBase + x[Len(x)]
           rest == BigDivSmallR(SubSeq(x, 1, Len(x) - 1), n, cur % n)
       IN  [q |-> rest.q \o <<cur \div n>>, r |-> rest.r]

BigDivSmall(x, n) ==
  LET d == BigDivSmallR(x, n, 0) IN [q |-> BigNorm(d.q), r |-> d.r]

RECURSIVE BigCmpFrom(_, _, _)
BigCmpFrom(x, y, i) ==
  IF i = 0 THEN 0
  ELSE IF x[i] < y[i] THEN -1
  ELSE IF x[i] > y[i] THEN 1
  ELSE BigCmpFrom(x, y, i - 1)

\* -1, 0 or 1 as x <, =, > y.
BigCmp(x, y) ==
  IF Len(x) < Len(y) THEN -1
  ELSE IF Len(x) > Len(y) THEN 1
  ELSE BigCmpFrom(x, y, Len(x))

RECURSIVE IntBitLen(_)
IntBitLen(n) == IF n = 0 THEN 0 ELSE 1 + IntBitLen(n \div 2)

BigBitLen(x) ==
  IF x = << >> THEN 0 ELSE (Len(x) - 1) * LimbBits + IntBitLen(x[Len(x)])

RECURSIVE ZeroLimbs(_)
ZeroLimbs(n) == IF n = 0 THEN << >> ELSE <<0>> \o ZeroLimbs(n - 1)

BigShl(x, s) ==
  IF x = << >> THEN << >>
  ELSE ZeroLimbs(s \div LimbBits) \o BigMulSmall(x, Pow2(s % LimbBits))

BigShr(x, s) ==
  IF s \div LimbBits >= Len(x) THEN << >>
  ELSE BigDivSmall(SubSeq(x, s \div LimbBits + 1, Len(x)), Pow2(s % LimbBits)).q

RECURSIVE IntTrailingZeros(_)
IntTrailingZeros(n) == IF n % 2 = 1 THEN 0 ELSE 1 + IntTrailingZeros(n \div 2)

RECURSIVE BigTrailingZeros(_)
BigTrailingZeros(x) ==
  IF Head(x) = 0 THEN LimbBits + BigTrailingZeros(Tail(x))
  ELSE IntTrailingZeros(Head(x))

(***************************************************************************)
(* JavaScript numbers.                                                     *)
(***************************************************************************)
Precision == 53

Zero == [cls |-> "fin", m |-> << >>, e |-> 0]

Infinity == [cls |-> "inf", m |-> << >>, e |-> 0]

NaN == [cls |-> "nan", m |-> << >>, e |-> 0]

\* The number M * 2^E in canonical form (M odd, or zero).
Canon(M, E) ==
  IF M = << >> THEN Zero
  ELSE LET tz == BigTrailingZeros(M)
       IN  [cls |-> "fin", m |-> BigShr(M, tz), e |-> E + tz]

\* M * 2^E (plus, when sticky, a positive fraction of the last place of M)
\* rounded to Precision significant bits, to nearest, ties to even.  Callers
\* that pass sticky = TRUE pass an M of more than Precision + 1 bits.
RoundNearestEven(M, E, sticky) ==
  LET nb == BigBitLen(M)
  IN  IF nb <= Precision THEN Canon(M, E)
      ELSE LET s    == nb - Precision
               q    == BigShr(M, s)
               r    == BigSub(M, BigShl(q, s))
               half == BigShl(<<1>>, s - 1)
               c    == BigCmp(r, half)
               up   == c = 1 \/ (c = 0 /\ (sticky \/ q[1] % 2 = 1))
           IN  Canon(IF up THEN BigAdd(q, <<1>>) ELSE q, E + s)

FromInt(n) == Canon(BigFromInt(n), 0)

MinInt(a, b) == IF a < b THEN a ELSE b

\* -1, 0, 1 for finite x, y.
FCmp(x, y) ==
  LET e0 == MinInt(x.e, y.e)
  IN  BigCmp(BigShl(x.m, x.e - e0), BigShl(y.m, y.e - e0))

\* x < y and x <= y of JavaScript: false whenever an operand is NaN.
FLt(x, y) ==
  IF x.cls = "nan" \/ y.cls = "nan" THEN FALSE
  ELSE IF x.cls = "inf" THEN FALSE
  ELSE IF y.cls = "inf" THEN TRUE
  ELSE FCmp(x, y) = -1

FLe(x, y) ==
  IF x.cls = "nan" \/ y.cls = "nan" THEN FALSE
  ELSE IF y.cls = "inf" THEN TRUE
  ELSE IF x.cls = "inf" THEN FALSE
  ELSE FCmp(x, y) <= 0

\* x + y of JavaScript for finite non-negative operands.
FAdd(x, y) ==
  LET e0 == MinInt(x.e, y.e)
  IN  RoundNearestEven(BigAdd(BigShl(x.m, x.e - e0), BigShl(y.m, y.e - e0)), e0, FALSE)

\* x - y of JavaScript for finite non-negative operands; a negative result
\* keeps its magnitude under the class "neg".
FSub(x, y) ==
  LET e0 == MinInt(x.e, y.e)
      a  == BigShl(x.m, x.e - e0)
      b  == BigShl(y.m, y.e - e0)
  IN  IF BigCmp(a, b) >= 0
      THEN RoundNearestEven(BigSub(a, b), e0, FALSE)
      ELSE [RoundNearestEven(BigSub(b, a), e0, FALSE) EXCEPT !.cls = "neg"]

\* x * y of JavaScript for finite non-negative operands.
FMul(x, y) == RoundNearestEven(BigMul(x.m, y.m), x.e + y.e, FALSE)

\* x / y of JavaScript for finite non-negative x and a y whose odd part is
\* below 2^20 (every divisor of the program is a count or a small constant).
FDiv(x, y) ==
  IF y.m = << >> THEN (IF x.m = << >> THEN NaN ELSE Infinity)
  ELSE IF x.m = << >> THEN Zero
  ELSE LET n  == BigToInt(y.m)
           k  == Precision + 2 + IntBitLen(n)
           qr == BigDivSmall(BigShl(x.m, k), n)
       IN  RoundNearestEven(qr.q, x.e - y.e - k, qr.r # 0)

\* Math.min and Math.max on finite operands.
FMin(x, y) == IF FLt(y, x) THEN y ELSE x

FMax(x, y) == IF FLt(x, y) THEN y ELSE x

\* Math.ceil of a finite non-negative number, as an integer.
CeilToInt(x) ==
  IF x.m = << >> THEN 0
  ELSE IF x.e >= 0 THEN BigToInt(BigShl(x.m, x.e))
  ELSE BigToInt(BigShr(x.m, 0 - x.e)) + 1

(***************************************************************************)
(* Bounds of the model.                                                    *)
(***************************************************************************)
\* Largest paragraph count handed to the fixed-count planner.
MaxCount == 7

\* Largest total duration (seconds) handed to the fixed-count planner.
MaxDuration == 6

\* Uploaded audio files have 0 bytes or 10..MaxAudioUnits seconds' worth of
\* bytes (16000 bytes per second at the 128 kbps getAudioInfo assumes).
MaxAudioUnits == 15

\* Segment lengths handed to segmentByTime are the numbers a/b of at least one
\* second with a, b in 1..MaxLengthTerm.
MaxLengthTerm == 10

AudioFileSizes == {0} \cup {16000 * u : u \in 10..MaxAudioUnits}

SegmentLengths ==
  {FDiv(FromInt(ab[1]), FromInt(ab[2])) :
     ab \in {x \in (1..MaxLengthTerm) \X (1..MaxLengthTerm) : x[1] >= x[2]}}

(***************************************************************************)
(* Audio segment planner (AudioProcessingService).                         *)
(***************************************************************************)
AudioSegment(start, end) ==
  [startTime |-> start, endTime |-> end, duration |-> FSub(end, start)]

\* getAudioInfo: the duration estimated from the file size, at least 10 s.
getAudioInfo(fileSizeInBytes) ==
  LET estimatedDuration == FDiv(FromInt(fileSizeInBytes * 8), FromInt(128 * 1000))
  IN  [duration |-> FMax(estimatedDuration, FromInt(10))]

\* The loop of segmentByTextParagraphs from index i on.
RECURSIVE segmentByTextParagraphsFrom(_, _, _, _)
segmentByTextParagraphsFrom(i, paragraphCount, totalDuration, segmentDuration) ==
  IF i >= paragraphCount THEN << >>
  ELSE LET startTime == FMul(FromInt(i), segmentDuration)
           endTime   == FMin(FAdd(startTime, segmentDuration), totalDuration)
       IN  <<AudioSegment(startTime, endTime)>>
           \o segmentByTextParagraphsFrom(i + 1, paragraphCount, totalDuration,
                                           segmentDuration)

segmentByTextParagraphs(paragraphCount, totalDuration) ==
  segmentByTextParagraphsFrom(0, paragraphCount, totalDuration,
                              FDiv(totalDuration, FromInt(paragraphCount)))

\* A segmentByTime loop that does not clamp the last end to the duration.
RECURSIVE segmentByTimeFrom_Unclamped(_, _, _)
segmentByTimeFrom_Unclamped(start, duration, segmentDuration) ==
  IF ~FLt(start, duration) THEN << >>
  ELSE <<AudioSegment(start, FAdd(start, segmentDuration))>>
       \o segmentByTimeFrom_Unclamped(FAdd(start, segmentDuration), duration, segmentDuration)

\* The loop of segmentByTime from the running value of `start` on.
RECURSIVE segmentByTimeFrom(_, _, _)
segmentByTimeFrom(start, duration, segmentDuration) ==
  IF ~FLt(start, duration) THEN << >>
  ELSE LET end == FMin(FAdd(start, segmentDuration), duration)
       IN  <<AudioSegment(start, end)>>
           \o segmentByTimeFrom(FAdd(start, segmentDuration), duration, segmentDuration)

segmentByTime(fileSizeInBytes, segmentDuration) ==
  segmentByTimeFrom(Zero, getAudioInfo(fileSizeInBytes).duration, segmentDuration)

(***************************************************************************)
(* Text normaliser (DocumentService.cleanText).  A text is a sequence of   *)
(* one-character strings.                                                  *)
(***************************************************************************)
\* Longest text handed to cleanText.
MaxTextLen == 5

Alphabet == {"a", " ", "\t", "\r", "\n"}

Texts == UNION {[1..n -> Alphabet] : n \in 0..MaxTextLen}

\* Length of the longest prefix of s made of characters of cs.
RECURSIVE RunLength(_, _)
RunLength(s, cs) ==
  IF s = << >> \/ Head(s) \notin cs THEN 0 ELSE 1 + RunLength(Tail(s), cs)

Drop(s, n) == SubSeq(s, n + 1, Len(s))

\* .replace(/\r\n/g, '\n')
RECURSIVE ReplaceCrLf(_)
ReplaceCrLf(s) ==
  IF s = << >> THEN << >>
  ELSE IF Len(s) >= 2 /\ s[1] = "\r" /\ s[2] = "\n"
       THEN <<"\n">> \o ReplaceCrLf(Drop(s, 2))
       ELSE <<Head(s)>> \o ReplaceCrLf(Tail(s))

\* .replace(/\n{3,}/g, '\n\n')
RECURSIVE CollapseNewlines(_)
CollapseNewlines(s) ==
  IF s = << >> THEN << >>
  ELSE LET r == RunLength(s, {"\n"})
       IN  IF r >= 3 THEN <<"\n", "\n">> \o CollapseNewlines(Drop(s, r))
           ELSE <<Head(s)>> \o CollapseNewlines(Tail(s))

\* .replace(/[ \t]+/g, ' ')
RECURSIVE CollapseBlanks(_)
CollapseBlanks(s) ==
  IF s = << >> THEN << >>
  ELSE LET r == RunLength(s, {" ", "\t"})
       IN  IF r >= 1 THEN <<" ">> \o CollapseBlanks(Drop(s, r))
           ELSE <<Head(s)>> \o CollapseBlanks(Tail(s))

WhiteSpace == {" ", "\t", "\r", "\n"}

RECURSIVE TrimEnd(_)
TrimEnd(s) ==
  IF s = << >> \/ s[Len(s)] \notin WhiteSpace THEN s
  ELSE TrimEnd(SubSeq(s, 1, Len(s) - 1))

\* String.prototype.trim
Trim(s) == TrimEnd(Drop(s, RunLength(s, WhiteSpace)))

cleanText(text) == Trim(CollapseBlanks(CollapseNewlines(ReplaceCrLf(text))))

(***************************************************************************)
(* Document parser (DocumentService.parseDocumentContent): the cleaned     *)
(* text is split into paragraphs, each paragraph into sentences, and the   *)
(* words of the text and of each paragraph are counted.                    *)
(***************************************************************************)
\* Longest text of letters, digits and full stops handed to the parser.
MaxParseLen == 5

\* Longest text of nothing but white space handed to the parser.
MaxBlankLen == 4

ParseAlphabet == {"a", "A", "1", ".", " ", "\n"}

ParseTexts ==
  (UNION {[1..n -> ParseAlphabet] : n \in 0..MaxParseLen})
  \cup (UNION {[1..n -> WhiteSpace] : n \in 0..MaxBlankLen})

\* [a-zA-Z]
Letters == {"a", "A"}

\* [A-Z]
UpperCase == {"A"}

\* [.!?]
SentenceEnd == {".", "!", "?"}

\* /\n\s*\n/ matched right after a "\n": the number of characters the greedy
\* \s*\n takes from s, 0 when s does not start with white space up to a "\n".
BlankLineEnd(s) ==
  IF {k \in 1..RunLength(s, WhiteSpace) : s[k] = "\n"} = {} THEN 0
  ELSE CHOOSE k \in 1..RunLength(s, WhiteSpace) :
         /\ s[k] = "\n"
         /\ \A j \in (k + 1)..RunLength(s, WhiteSpace) : s[j] # "\n"

\* text.split(/\n\s*\n/), the piece being read in `piece`.
RECURSIVE SplitAtBlankLines(_, _)
SplitAtBlankLines(s, piece) ==
  IF s = << >> THEN <<piece>>
  ELSE IF Head(s) = "\n" /\ BlankLineEnd(Tail(s)) > 0
       THEN <<piece>> \o SplitAtBlankLines(Drop(Tail(s), BlankLineEnd(Tail(s))), << >>)
       ELSE SplitAtBlankLines(Tail(s), Append(piece, Head(s)))

\* text.split(/(?<=[.!?])\s+(?=[A-Z])/), the piece being read in `piece`.
RECURSIVE SplitAtSentenceEnds(_, _)
SplitAtSentenceEnds(s, piece) ==
  IF s = << >> THEN <<piece>>
  ELSE IF /\ piece # << >>
          /\ piece[Len(piece)] \in SentenceEnd
          /\ RunLength(s, WhiteSpace) >= 1
          /\ Len(s) > RunLength(s, WhiteSpace)
          /\ s[RunLength(s, WhiteSpace) + 1] \in UpperCase
       THEN <<piece>> \o SplitAtSentenceEnds(Drop(s, RunLength(s, WhiteSpace)), << >>)
       ELSE SplitAtSentenceEnds(Tail(s), Append(piece, Head(s)))

\* text.split(/\s+/), the piece being read in `piece`.
RECURSIVE SplitAtWhiteSpace(_, _)
SplitAtWhiteSpace(s, piece) ==
  IF s = << >> THEN <<piece>>
  ELSE IF Head(s) \in WhiteSpace
       THEN <<piece>> \o SplitAtWhiteSpace(Drop(s, RunLength(s, WhiteSpace)), << >>)
       ELSE SplitAtWhiteSpace(Tail(s), Append(piece, Head(s)))

\* .map(p => p.trim()).filter(p => p.length > 0)
TrimmedNonEmpty(pieces) ==
  SelectSeq([i \in 1..Len(pieces) |-> Trim(pieces[i])], LAMBDA piece : piece # << >>)

splitIntoSentences(text) == TrimmedNonEmpty(SplitAtSentenceEnds(text, << >>))

countWords(text) ==
  Len(SelectSeq(SplitAtWhiteSpace(text, << >>),
                LAMBDA word : word # << >> /\ \E i \in 1..Len(word) : word[i] \in Letters))

\* splitIntoParagraphs keeping the pieces that are empty once trimmed.
paragraphTexts_KeepsEmptyPieces(text) ==
  [i \in 1..Len(SplitAtBlankLines(text, << >>)) |-> Trim(SplitAtBlankLines(text, << >>)[i])]

\* The paragraph texts of splitIntoParagraphs.
paragraphTexts(text) == TrimmedNonEmpty(SplitAtBlankLines(text, << >>))

\* The ParagraphDto built from each paragraph text.
paragraphDtos(texts) ==
  [i \in 1..Len(texts) |->
     [id |-> i, content |-> texts[i], order |-> i,
      wordCount |-> countWords(texts[i]), sentences |-> splitIntoSentences(texts[i])]]

splitIntoParagraphs(text) == paragraphDtos(paragraphTexts(text))

\* paragraphs.reduce((count, p) => count + p.sentences.length, 0)
RECURSIVE SentenceTotal(_)
SentenceTotal(paras) ==
  IF paras = << >> THEN 0 ELSE Len(Head(paras).sentences) + SentenceTotal(Tail(paras))

\* parsedDocument counting every token of the text as a word.
parsedDocument_CountsEveryToken(cleanContent, paras) ==
  [content |-> cleanContent,
   wordCount |-> Len(SelectSeq(SplitAtWhiteSpace(cleanContent, << >>),
                               LAMBDA word : word # << >>)),
   sentenceCount |-> SentenceTotal(paras),
   paragraphCount |-> Len(paras),
   paragraphs |-> paras]

\* The object parseDocumentContent returns.
parsedDocument(cleanContent, paras) ==
  [content |-> cleanContent,
   wordCount |-> countWords(cleanContent),
   sentenceCount |-> SentenceTotal(paras),
   paragraphCount |-> Len(paras),
   paragraphs |-> paras]

parseDocumentContent(content) ==
  parsedDocument(cleanText(content), splitIntoParagraphs(cleanText(content)))

(***************************************************************************)
(* Paragraph / segment matcher (DocumentService).                          *)
(***************************************************************************)
\* Largest number of paragraphs of a matched document.
MaxParagraphs == 8

\* The audio uploaded for a match has 0 bytes or 11..MaxMatchAudioUnits
\* seconds' worth of bytes.
MaxMatchAudioUnits == 13

MatchFileSizes == {0} \cup {16000 * u : u \in 11..MaxMatchAudioUnits}

\* The segmentDuration option of a match is a whole number of seconds in
\* 0..MaxSegmentSeconds (0: not given).
MaxSegmentSeconds == 3

\* Extraction and paragraph-update failures hit pairings 1..MaxFailedPairing.
MaxFailedPairing == 1

\* A null audio reference of a paragraph row.
NoUrl == [kind |-> "none", index |-> 0, id |-> 0]

NoDuration == [cls |-> "null", m |-> << >>, e |-> 0]

\* The paragraph rows saveDocumentToDatabase creates: orderNum 1..n, no audio.
savedParagraphs(n) ==
  [i \in 1..n |-> [id |-> i, orderNum |-> i, audioUrl |-> NoUrl,
                   audioFileName |-> 0, audioDuration |-> NoDuration]]

\* `/audio/${documentId}_<kind>_<index>_<segmentId>.mp3`
AudioUrl(kind, index, segmentId) == [kind |-> kind, index |-> index, id |-> segmentId]

\* prisma.paragraph.update of the audio fields of row i.
updateParagraph(rows, i, audioUrl, audioFileName, audioDuration) ==
  [rows EXCEPT ![i] = [@ EXCEPT !.audioUrl = audioUrl,
                                !.audioFileName = audioFileName,
                                !.audioDuration = audioDuration]]

\* An AudioSegmentDto whose order counts the paragraphs from zero.
AudioSegmentDto_ZeroBasedOrder(id, startTime, endTime, url, duration, order) ==
  [id |-> id, startTime |-> startTime, endTime |-> endTime,
   segmentAudioUrl |-> url, duration |-> duration, order |-> order - 1]

AudioSegmentDto(id, startTime, endTime, url, duration, order) ==
  [id |-> id, startTime |-> startTime, endTime |-> endTime,
   segmentAudioUrl |-> url, duration |-> duration, order |-> order]

\* A generateSegmentAudios that closes the gaps of the failed extractions:
\* result i is that of the i-th segment whose extraction succeeded.
generateSegmentAudios_CompactsFailures(segs, extractFails) ==
  LET done == SelectSeq([i \in 1..Len(segs) |-> i], LAMBDA i : i \notin extractFails)
  IN  [i \in 1..Len(segs) |->
         IF i > Len(done)
         THEN [ok |-> FALSE, segmentId |-> i, audioUrl |-> NoUrl, segment |-> segs[i]]
         ELSE [ok |-> TRUE, segmentId |-> done[i],
               audioUrl |-> AudioUrl("segment", done[i], done[i]),
               segment |-> segs[done[i]]]]

\* generateSegmentAudios: one result per segment, null where the extraction
\* threw; extractFails are the (1-based) calls of extractAudioSegment that throw.
generateSegmentAudios(segs, extractFails) ==
  [i \in 1..Len(segs) |->
     IF i \in extractFails
     THEN [ok |-> FALSE, segmentId |-> i, audioUrl |-> NoUrl, segment |-> segs[i]]
     ELSE [ok |-> TRUE, segmentId |-> i, audioUrl |-> AudioUrl("segment", i, i),
           segment |-> segs[i]]]

\* The matching loops thread the state they change: the paragraph rows, the
\* processedAudioSegments list, and whether an exception left the function.
\* The loop of oneToOneMatch from i (0-based) on.
RECURSIVE oneToOneLoop(_, _, _, _, _)
oneToOneLoop(i, minLength, segmentResults, updateFails, acc) ==
  IF i >= minLength THEN acc
  ELSE LET segmentResult == segmentResults[i + 1]
       IN  IF ~segmentResult.ok
           THEN oneToOneLoop(i + 1, minLength, segmentResults, updateFails, acc)
           ELSE IF (i + 1) \in updateFails
           THEN [acc EXCEPT !.threw = TRUE]
           ELSE oneToOneLoop(i + 1, minLength, segmentResults, updateFails,
                  [acc EXCEPT
                     !.rows = updateParagraph(@, i + 1, segmentResult.audioUrl,
                                segmentResult.segmentId, segmentResult.segment.duration),
                     !.processed = Append(@,
                        AudioSegmentDto(segmentResult.segmentId,
                          segmentResult.segment.startTime, segmentResult.segment.endTime,
                          segmentResult.audioUrl, segmentResult.segment.duration, i + 1))])

\* oneToOneMatch with its loop stopping one pairing short of minLength.
oneToOneMatch_StopsOneShort(rows, segs, extractFails, updateFails) ==
  LET minLength == MinInt(Len(rows), Len(segs))
  IN  oneToOneLoop(0, minLength - 1,
                   generateSegmentAudios(SubSeq(segs, 1, minLength), extractFails),
                   updateFails, [rows |-> rows, processed |-> << >>, threw |-> FALSE])

oneToOneMatch(rows, segs, extractFails, updateFails) ==
  LET minLength == MinInt(Len(rows), Len(segs))
  IN  oneToOneLoop(0, minLength,
                   generateSegmentAudios(SubSeq(segs, 1, minLength), extractFails),
                   updateFails, [rows |-> rows, processed |-> << >>, threw |-> FALSE])

\* Array.prototype.slice(from, to) with 0 <= from.
Slice(s, from, to) ==
  IF from >= MinInt(to, Len(s)) THEN << >> ELSE SubSeq(s, from + 1, MinInt(to, Len(s)))

\* Math.floor(a / b) in the place of Math.ceil(a / b).
CeilOfRatio_Floor(a, b) == a \div b

\* Math.ceil(a / b) for counts a >= 0, b >= 1.
CeilOfRatio(a, b) == CeilToInt(FDiv(FromInt(a), FromInt(b)))

\* The loop of mergeAudioSegments from paragraph i (0-based) on.
RECURSIVE mergeLoop(_, _, _, _, _, _)
mergeLoop(i, segmentsPerParagraph, segs, extractFails, updateFails, acc) ==
  IF i >= Len(acc.rows) THEN acc
  ELSE LET startIndex == i * segmentsPerParagraph
           endIndex   == MinInt(startIndex + segmentsPerParagraph, Len(segs))
           segmentsToMerge == Slice(segs, startIndex, endIndex)
           startTime  == segmentsToMerge[1].startTime
           endTime    == segmentsToMerge[Len(segmentsToMerge)].endTime
           duration   == FSub(endTime, startTime)
           segmentId  == i + 1
           audioUrl   == AudioUrl("merged_segment", i + 1, segmentId)
       IN  IF segmentsToMerge = << >>
              \/ (i + 1) \in extractFails \/ (i + 1) \in updateFails
           THEN mergeLoop(i + 1, segmentsPerParagraph, segs, extractFails, updateFails, acc)
           ELSE mergeLoop(i + 1, segmentsPerParagraph, segs, extractFails, updateFails,
                  [acc EXCEPT
                     !.rows = updateParagraph(@, i + 1, audioUrl, segmentId, duration),
                     !.processed = Append(@,
                        AudioSegmentDto(segmentId, startTime, endTime, audioUrl,
                                        duration, i + 1))])

mergeAudioSegments(rows, segs, extractFails, updateFails) ==
  mergeLoop(0, IF Len(rows) = 0 THEN 0 ELSE CeilOfRatio(Len(segs), Len(rows)),
            segs, extractFails, updateFails,
            [rows |-> rows, processed |-> << >>, threw |-> FALSE])

\* The inner loop of splitAudioSegments: paragraph j (0-based) of the group
\* of `segment`, which starts at paragraph startParagraphIndex (0-based).
RECURSIVE splitInnerLoop(_, _, _, _, _, _, _, _)
splitInnerLoop(j, groupSize, segment, subSegmentDuration, startParagraphIndex, extractFails, updateFails, acc) ==
  IF j >= groupSize THEN acc
  ELSE LET subSegmentStart == FAdd(segment.startTime, FMul(FromInt(j), subSegmentDuration))
           subSegmentEnd   == FMin(FAdd(subSegmentStart, subSegmentDuration), segment.endTime)
           subSegmentDur   == FSub(subSegmentEnd, subSegmentStart)
           order     == startParagraphIndex + j + 1
           segmentId == order
           audioUrl  == AudioUrl("split_segment", order, segmentId)
       IN  IF order \in extractFails \/ order \in updateFails
           THEN splitInnerLoop(j + 1, groupSize, segment, subSegmentDuration,
                               startParagraphIndex, extractFails, updateFails, acc)
           ELSE splitInnerLoop(j + 1, groupSize, segment, subSegmentDuration,
                  startParagraphIndex, extractFails, updateFails,
                  [acc EXCEPT
                     !.rows = updateParagraph(@, order, audioUrl, segmentId, subSegmentDur),
                     !.processed = Append(@,
                        AudioSegmentDto(segmentId, subSegmentStart, subSegmentEnd,
                                        audioUrl, subSegmentDur, order))])

\* The outer loop of splitAudioSegments from segment i (0-based) on.
RECURSIVE splitLoop(_, _, _, _, _, _)
splitLoop(i, paragraphsPerSegment, segs, extractFails, updateFails, acc) ==
  IF i >= Len(segs) THEN acc
  ELSE LET segment == segs[i + 1]
           startParagraphIndex == i * paragraphsPerSegment
           endParagraphIndex ==
             MinInt(startParagraphIndex + paragraphsPerSegment, Len(acc.rows))
           groupSize ==
             Len(Slice(acc.rows, startParagraphIndex, endParagraphIndex))
           subSegmentDuration == FDiv(segment.duration, FromInt(groupSize))
       IN  splitLoop(i + 1, paragraphsPerSegment, segs, extractFails, updateFails,
             splitInnerLoop(0, groupSize, segment, subSegmentDuration,
                            startParagraphIndex, extractFails, updateFails, acc))

\* splitAudioSegments with groups of floor(P / S) paragraphs instead of ceil.
splitAudioSegments_FloorGroups(rows, segs, extractFails, updateFails) ==
  splitLoop(0, IF Len(segs) = 0 THEN 0 ELSE Len(rows) \div Len(segs),
            segs, extractFails, updateFails,
            [rows |-> rows, processed |-> << >>, threw |-> FALSE])

splitAudioSegments(rows, segs, extractFails, updateFails) ==
  splitLoop(0, IF Len(segs) = 0 THEN 0 ELSE CeilOfRatio(Len(rows), Len(segs)),
            segs, extractFails, updateFails,
            [rows |-> rows, processed |-> << >>, threw |-> FALSE])

AbsDiff(a, b) == IF a < b THEN b - a ELSE a - b

MaxInt(a, b) == IF a < b THEN b ELSE a

\* Math.abs(P - S) / Math.max(P, S); NaN when both counts are 0.
matchRatio(paragraphCount, segmentCount) ==
  FDiv(FromInt(AbsDiff(paragraphCount, segmentCount)),
       FromInt(MaxInt(paragraphCount, segmentCount)))

\* The literals 0.2 and 0.3: the numbers nearest to 1/5 and 3/10.
OneFifth == FDiv(FromInt(1), FromInt(5))

ThreeTenths == FDiv(FromInt(3), FromInt(10))

\* chooseStrategy with ratio < 0.2 in place of ratio <= 0.2.
chooseStrategy_StrictThreshold(paragraphCount, segmentCount) ==
  IF FLt(matchRatio(paragraphCount, segmentCount), OneFifth) THEN "oneToOne"
  ELSE IF segmentCount > paragraphCount THEN "merge"
  ELSE "split"

\* Which of the three strategies matchParagraphsWithAudioSegments runs.
chooseStrategy(paragraphCount, segmentCount) ==
  IF FLe(matchRatio(paragraphCount, segmentCount), OneFifth) THEN "oneToOne"
  ELSE IF segmentCount > paragraphCount THEN "merge"
  ELSE "split"

\* The strategy chosen, run.
runStrategy(strategy, rows, segs, extractFails, updateFails) ==
  CASE strategy = "oneToOne" -> oneToOneMatch(rows, segs, extractFails, updateFails)
    [] strategy = "merge" -> mergeAudioSegments(rows, segs, extractFails, updateFails)
    [] OTHER -> splitAudioSegments(rows, segs, extractFails, updateFails)

\* The object matchParagraphsWithAudioSegments returns.
matchResult(done, needsAdjustment, strategy) ==
  [rows |-> done.rows,
   audioSegments |-> done.processed,
   needsManualAdjustment |-> needsAdjustment,
   strategy |-> strategy,
   threw |-> done.threw]

\* matchParagraphsWithAudioSegments flagging every ratio above 0.2.
matchParagraphsWithAudioSegments_FlagAboveOneFifth(rows, segs, extractFails, updateFails) ==
  matchResult(runStrategy(chooseStrategy(Len(rows), Len(segs)),
                          rows, segs, extractFails, updateFails),
              FLt(OneFifth, matchRatio(Len(rows), Len(segs))),
              chooseStrategy(Len(rows), Len(segs)))

matchParagraphsWithAudioSegments(rows, segs, extractFails, updateFails) ==
  matchResult(runStrategy(chooseStrategy(Len(rows), Len(segs)),
                          rows, segs, extractFails, updateFails),
              FLt(ThreeTenths, matchRatio(Len(rows), Len(segs))),
              chooseStrategy(Len(rows), Len(segs)))

\* segmentAudio: the 'time' and 'manual' strategies.
segmentAudio(fileSize, strategy, segmentDuration) ==
  IF strategy = "time"
  THEN segmentByTime(fileSize, FromInt(IF segmentDuration = 0 THEN 30 ELSE segmentDuration))
  ELSE <<[startTime |-> Zero, endTime |-> getAudioInfo(fileSize).duration,
          duration |-> getAudioInfo(fileSize).duration]>>

(***************************************************************************)
(* CacheService: a Map from keys to items, in insertion order.  An item    *)
(* keeps the clock value at which it was set and its time to live in       *)
(* seconds.  Every clock value is one reading of Date.now().               *)
(***************************************************************************)
maxItems == 2

defaultTtl == 2

MillisPerSecond == 1000

CacheKeys == {"", "a", "b"}

ClockValues == {0, 1, 2002}

\* The ttl argument of set; 0 stands for a call without one.
TtlValues == {0, 1}

\* The index of the item stored under key, 0 when there is none.
CacheIndex(entries, key) ==
  IF \E i \in 1..Len(entries) : entries[i].key = key
  THEN CHOOSE i \in 1..Len(entries) : entries[i].key = key
  ELSE 0

RemoveAt(entries, i) ==
  [j \in 1..(Len(entries) - 1) |-> IF j < i THEN entries[j] ELSE entries[j + 1]]

\* removeOldest's loop; oldestKey is << >> for null.
RECURSIVE removeOldestLoop(_, _, _, _)
removeOldestLoop(entries, i, oldestKey, oldestTimestamp) ==
  IF i > Len(entries) THEN oldestKey
  ELSE IF entries[i].timestamp < oldestTimestamp
       THEN removeOldestLoop(entries, i + 1, <<entries[i].key>>, entries[i].timestamp)
       ELSE removeOldestLoop(entries, i + 1, oldestKey, oldestTimestamp)

\* `if (oldestKey)`: neither null nor the empty string.
removeOldestKey(entries, oldestKey) ==
  IF oldestKey # << >> /\ oldestKey[1] # ""
  THEN RemoveAt(entries, CacheIndex(entries, oldestKey[1]))
  ELSE entries

removeOldest(entries, now) ==
  removeOldestKey(entries, removeOldestLoop(entries, 1, << >>, now))

\* Map.set: an existing key keeps its place.
MapSet(entries, item) ==
  IF CacheIndex(entries, item.key) = 0
  THEN Append(entries, item)
  ELSE [entries EXCEPT ![CacheIndex(entries, item.key)] = item]

\* set reads the clock twice: in removeOldest, and for the item's timestamp.
cacheSet(entries, key, ttl, now, timestamp) ==
  MapSet(IF Len(entries) >= maxItems THEN removeOldest(entries, now) ELSE entries,
         [key |-> key, timestamp |-> timestamp,
          ttl |-> IF ttl = 0 THEN defaultTtl ELSE ttl])

cacheExpired(item, now) == now > item.timestamp + item.ttl * MillisPerSecond

\* get: what it returns, and the Map it leaves.
cacheGetResult(entries, key, now) ==
  IF CacheIndex(entries, key) = 0 THEN "null"
  ELSE IF cacheExpired(entries[CacheIndex(entries, key)], now) THEN "null" ELSE "data"

cacheGet(entries, key, now) ==
  IF CacheIndex(entries, key) # 0 /\ cacheExpired(entries[CacheIndex(entries, key)], now)
  THEN RemoveAt(entries, CacheIndex(entries, key))
  ELSE entries

cacheDelete(entries, key) ==
  IF CacheIndex(entries, key) = 0 THEN entries
  ELSE RemoveAt(entries, CacheIndex(entries, key))

(***************************************************************************)
(* uploadToS3 of the S3 speech service: a loop of PutObject attempts.      *)
(***************************************************************************)
maxRetries == 3

RetryDelayMillis == 2000

UploadKeys == {"speech/a.mp3", "speech/b.ogg"}

UploadFormats == {"mp3", "ogg_vorbis", "pcm"}

\* What s3Client.send does: it resolves, or rejects with an error.
SendOutcomes == {"ok", "RequestTimeout", "SlowDown"}

S3Url(key) == <<"https://bucket.s3.region.amazonaws.com/", key>>

NoS3Url == <<"", "">>

\* The catch block after retryCount++: rethrow, or wait and loop.
afterFailedAttempt_NoRetry(retryCount) == "threw"

afterFailedAttempt(retryCount) == IF retryCount >= maxRetries THEN "threw" ELSE "sleep"

(***************************************************************************)
(* The document store: the document and paragraph rows, the speech         *)
(* records, and the files of public/audio.  An operator of a service takes *)
(* the store `db` and gives the store it leaves with what it returns.      *)
(***************************************************************************)
StoreTexts == {<< >>, <<"a">>, <<"a", "\n", "\n", "A">>}

OutputFormats == {"mp3", "ogg_vorbis"}

\* Audio segmentation options of a match: one segment, or two of 5 seconds.
StoreAudioOptions == {<<"manual", 0>>, <<"time", 5>>}

\* A file of public/audio, and the URL `/audio/<name>` of it:
\*   `${doc}_paragraph_${index}.${ext}`, `${doc}_${kind}_${index}_${id}.mp3`,
\*   `${id}${ext}` for an upload (kind "uuid"); ext "" is a name without
\*   extension.  Every uuid is written as the document it was drawn for and
\*   a number.
FileRef(doc, kind, index, id, ext) ==
  [doc |-> doc, kind |-> kind, index |-> index, id |-> id, ext |-> ext]

NoFile == FileRef(0, "none", 0, 0, "")

\* `${fileName}.${extension}`
WithExtension(fileName, ext) == [fileName EXCEPT !.ext = ext]

EmptyStore ==
  [documents |-> << >>, speechRecords |-> {}, audioFiles |-> {},
   issued |-> [document |-> 0, speech |-> 0]]

charCodeAt(c) ==
  CASE c = "a" -> 97 [] c = "A" -> 65 [] c = "B" -> 66 [] c = "1" -> 49 [] c = "." -> 46
    [] c = " " -> 32 [] c = "\n" -> 10 [] c = "\t" -> 9 [] OTHER -> 13

\* The loop of simpleHash; the texts here are short enough for the hash to
\* stay below 2^31, where `hash & hash` changes nothing.
RECURSIVE simpleHashFrom(_, _, _)
simpleHashFrom(str, i, hash) ==
  IF i > Len(str) THEN hash
  ELSE simpleHashFrom(str, i + 1, (hash * 32 - hash) + charCodeAt(str[i]))

\* Math.abs(hash).toString(36), written as the number it denotes.
simpleHash(str) ==
  IF simpleHashFrom(str, 1, 0) < 0 THEN 0 - simpleHashFrom(str, 1, 0)
  ELSE simpleHashFrom(str, 1, 0)

generateCacheKey(text, voiceId, outputFormat) ==
  [voiceId |-> voiceId, outputFormat |-> outputFormat, hash |-> simpleHash(text)]

\* Math.round((text.split(' ').length / 150) * 60)
estimatedDuration(text) ==
  (2 * 60 * (1 + Cardinality({i \in 1..Len(text) : text[i] = " "})) + 150) \div 300

speechRecord(id, cacheKey, text, outputFormat, fileName) ==
  [id |-> id, cacheKey |-> cacheKey, fileName |-> fileName,
   audioUrl |-> WithExtension(fileName, outputFormat),
   duration |-> FromInt(estimatedDuration(text)),
   voiceId |-> cacheKey.voiceId, outputFormat |-> outputFormat, originalText |-> text]

\* generateSpeech after the lookup found no usable record: a stale record is
\* deleted, the text is synthesised, the file written, the record created.
synthesizeAndSave(db, stale, record, synthesisFails) ==
  IF synthesisFails
  THEN [db |-> [db EXCEPT !.speechRecords = @ \ stale],
        threw |-> TRUE, synthesized |-> TRUE, speech |-> record]
  ELSE [db |-> [db EXCEPT !.speechRecords = (@ \ stale) \cup {record},
                          !.audioFiles = @ \cup {record.audioUrl},
                          !.issued.speech = @ + 1],
        threw |-> FALSE, synthesized |-> TRUE, speech |-> record]

\* generateSpeech with the records findExistingSpeech matches.
generateSpeechWith(db, existing, record, synthesisFails) ==
  IF \E r \in existing : WithExtension(r.fileName, record.outputFormat) \in db.audioFiles
  THEN [db |-> db, threw |-> FALSE, synthesized |-> FALSE,
        speech |-> CHOOSE r \in existing :
                     WithExtension(r.fileName, record.outputFormat) \in db.audioFiles]
  ELSE synthesizeAndSave(db, existing, record, synthesisFails)

generateSpeech(db, text, outputFormat, fileName, synthesisFails) ==
  generateSpeechWith(db,
    {r \in db.speechRecords : r.cacheKey = generateCacheKey(text, "Joanna", outputFormat)},
    speechRecord(db.issued.speech + 1, generateCacheKey(text, "Joanna", outputFormat),
                 text, outputFormat, fileName),
    synthesisFails)

\* The paragraph rows saveDocumentToDatabase creates, numbered from 0.
createdParagraphs_ZeroBased(paragraphs) ==
  [index \in 1..Len(paragraphs) |->
     [id |-> paragraphs[index].id, content |-> paragraphs[index].content,
      orderNum |-> index - 1, wordCount |-> paragraphs[index].wordCount,
      sentences |-> paragraphs[index].sentences,
      audioUrl |-> NoFile, audioFileName |-> NoFile, audioDuration |-> NoDuration]]

\* The paragraph rows saveDocumentToDatabase creates (index is 1-based here).
createdParagraphs(paragraphs) ==
  [index \in 1..Len(paragraphs) |->
     [id |-> paragraphs[index].id, content |-> paragraphs[index].content,
      orderNum |-> index, wordCount |-> paragraphs[index].wordCount,
      sentences |-> paragraphs[index].sentences,
      audioUrl |-> NoFile, audioFileName |-> NoFile, audioDuration |-> NoDuration]]

saveDocumentToDatabase(db, documentData, originalAudioUrl) ==
  [db EXCEPT
     !.documents = @ @@ ((db.issued.document + 1) :>
        [id |-> db.issued.document + 1, content |-> documentData.content,
         paragraphCount |-> documentData.paragraphCount,
         paragraphs |-> createdParagraphs(documentData.paragraphs),
         originalAudioUrl |-> originalAudioUrl]),
     !.issued.document = @ + 1]

\* formatDocumentResponse: the paragraphs of the response.
formatDocumentResponse(document) ==
  [i \in 1..Len(document.paragraphs) |->
     [id |-> document.paragraphs[i].id, content |-> document.paragraphs[i].content,
      order |-> document.paragraphs[i].orderNum,
      wordCount |-> document.paragraphs[i].wordCount,
      sentences |-> document.paragraphs[i].sentences,
      audioUrl |-> document.paragraphs[i].audioUrl,
      audioFileName |-> document.paragraphs[i].audioFileName,
      audioDuration |-> document.paragraphs[i].audioDuration]]

\* The body of the loop of generateAudioForParagraphs, given what
\* generateSpeech did: the paragraph row is updated unless either threw.
audioForParagraph(acc, documentId, paragraph, updateFails, spoken) ==
  [db |-> IF spoken.threw \/ paragraph.order \in updateFails
          THEN spoken.db
          ELSE [spoken.db EXCEPT !.documents[documentId].paragraphs =
                  updateParagraph(@, CHOOSE j \in 1..Len(@) : @[j].id = paragraph.id,
                                  spoken.speech.audioUrl, spoken.speech.fileName,
                                  spoken.speech.duration)],
   attempted |-> Append(acc.attempted, paragraph.order),
   synthesisFailed |-> acc.synthesisFailed \cup
                         (IF spoken.threw THEN {paragraph.order} ELSE {})]

RECURSIVE generateAudioFrom(_, _, _, _, _, _, _)
generateAudioFrom(i, documentId, paragraphs, outputFormat, synthesisFails, updateFails, acc) ==
  IF i > Len(paragraphs) THEN acc
  ELSE generateAudioFrom(i + 1, documentId, paragraphs, outputFormat, synthesisFails, updateFails,
         audioForParagraph(acc, documentId, paragraphs[i], updateFails,
           generateSpeech(acc.db, paragraphs[i].content, outputFormat,
                          FileRef(documentId, "paragraph", paragraphs[i].order, 0, ""),
                          paragraphs[i].order \in synthesisFails)))

\* generateAudioForParagraphs leaving the loop at the first paragraph that fails.
generateAudioForParagraphs_StopsAtFailure(db, documentId, paragraphs, outputFormat, synthesisFails, updateFails) ==
  generateAudioFrom(1, documentId,
    SubSeq(paragraphs, 1,
           IF \E i \in 1..Len(paragraphs) : i \in synthesisFails \cup updateFails
           THEN CHOOSE i \in 1..Len(paragraphs) :
                  /\ i \in synthesisFails \cup updateFails
                  /\ \A j \in 1..(i - 1) : j \notin synthesisFails \cup updateFails
           ELSE Len(paragraphs)),
    outputFormat, synthesisFails, updateFails,
    [db |-> db, attempted |-> << >>, synthesisFailed |-> {}])

generateAudioForParagraphs(db, documentId, paragraphs, outputFormat, synthesisFails, updateFails) ==
  generateAudioFrom(1, documentId, paragraphs, outputFormat, synthesisFails, updateFails,
    [db |-> db, attempted |-> << >>, synthesisFailed |-> {}])

\* What a call of the document service leaves and gives back.
Outcome(db, outcome, documentId, paragraphs, attempted, synthesisFailed) ==
  [db |-> db, outcome |-> outcome, documentId |-> documentId, paragraphs |-> paragraphs,
   attempted |-> attempted, synthesisFailed |-> synthesisFailed]

getDocumentById_SameErrorWhenMissing(db, id, persistenceFails) ==
  IF persistenceFails \/ id \notin DOMAIN db.documents
  THEN Outcome(db, "PersistenceError", id, << >>, << >>, {})
  ELSE Outcome(db, "returned", id, formatDocumentResponse(db.documents[id]), << >>, {})

getDocumentById(db, id, persistenceFails) ==
  IF persistenceFails THEN Outcome(db, "PersistenceError", id, << >>, << >>, {})
  ELSE IF id \notin DOMAIN db.documents
  THEN Outcome(db, "DocumentNotFound", id, << >>, << >>, {})
  ELSE Outcome(db, "returned", id, formatDocumentResponse(db.documents[id]), << >>, {})

\* processDocumentWithAudio once the document is saved as documentId in db
\* and the batch, if asked for, has run.
processedWithAudio(documentId, saved, generateAudio, batch, fetchFails) ==
  IF ~generateAudio
  THEN Outcome(saved, "returned", documentId,
               formatDocumentResponse(saved.documents[documentId]), << >>, {})
  ELSE [getDocumentById(batch.db, documentId, fetchFails)
          EXCEPT !.attempted = batch.attempted, !.synthesisFailed = batch.synthesisFailed]

\* persistenceFails: "create" (prisma.document.create throws), "fetch" (the
\* final getDocumentById throws) or "none".
processDocumentWithAudio(db, content, generateAudio, outputFormat, synthesisFails, updateFails, persistenceFails) ==
  IF persistenceFails = "create"
  THEN Outcome(db, "PersistenceError", 0, << >>, << >>, {})
  ELSE LET documentId == db.issued.document + 1
           saved == saveDocumentToDatabase(db, parseDocumentContent(content), NoFile)
       IN  processedWithAudio(documentId, saved, generateAudio,
             generateAudioForParagraphs(saved, documentId,
               formatDocumentResponse(saved.documents[documentId]),
               outputFormat, synthesisFails, updateFails),
             persistenceFails = "fetch")

\* The rows as the matcher's operators write them (null audio is NoUrl, 0),
\* and back with the document's id in every name the match made.
matcherRows(rows) ==
  [i \in 1..Len(rows) |-> [rows[i] EXCEPT !.audioUrl = NoUrl, !.audioFileName = 0]]

storedRows(documentId, rows) ==
  [i \in 1..Len(rows) |->
     IF rows[i].audioUrl = NoUrl
     THEN [rows[i] EXCEPT !.audioUrl = NoFile, !.audioFileName = NoFile]
     ELSE [rows[i] EXCEPT
             !.audioUrl = FileRef(documentId, @.kind, @.index, @.id, "mp3"),
             !.audioFileName = FileRef(documentId, "uuid", 0, @, "")]]

\* The files extractAudioSegment wrote during a match: one per pairing
\* attempted whose extraction did not throw.
extractedFiles(documentId, strategy, paragraphCount, segmentCount, extractFails) ==
  CASE strategy = "oneToOne" ->
         {FileRef(documentId, "segment", i, i, "mp3") :
            i \in (1..MinInt(paragraphCount, segmentCount)) \ extractFails}
    [] strategy = "merge" ->
         {FileRef(documentId, "merged_segment", i, i, "mp3") :
            i \in {k \in 1..paragraphCount :
                     (k - 1) * CeilOfRatio(segmentCount, paragraphCount) < segmentCount}
                  \ extractFails}
    [] OTHER ->
         {FileRef(documentId, "split_segment", i, i, "mp3") :
            i \in (1..paragraphCount) \ extractFails}

\* matchDocumentWithAudio once the upload and the document are saved and the
\* match has run: the response is built from savedDocument, the rows as
\* they were created.
matchedWithAudio(documentId, saved, segmentCount, matched, extractFails) ==
  Outcome([saved EXCEPT
             !.documents[documentId].paragraphs = storedRows(documentId, matched.rows),
             !.audioFiles = @ \cup extractedFiles(documentId, matched.strategy,
                                     Len(matched.rows), segmentCount, extractFails)],
          IF matched.threw THEN "MatchFailed" ELSE "returned",
          documentId,
          IF matched.threw THEN << >>
          ELSE formatDocumentResponse(saved.documents[documentId]),
          << >>, {})

matchSaved(documentId, saved, segs, extractFails, updateFails) ==
  matchedWithAudio(documentId, saved, Len(segs),
    matchParagraphsWithAudioSegments(matcherRows(saved.documents[documentId].paragraphs),
                                     segs, extractFails, updateFails),
    extractFails)

matchDocumentWithAudioIn(db, content, audioOptions, extractFails, updateFails) ==
  matchSaved(db.issued.document + 1,
    saveDocumentToDatabase(
      [db EXCEPT !.audioFiles = @ \cup {FileRef(db.issued.document + 1, "uuid", 0, 0, "mp3")}],
      parseDocumentContent(content),
      FileRef(db.issued.document + 1, "uuid", 0, 0, "mp3")),
    segmentAudio(0, audioOptions[1], audioOptions[2]),
    extractFails, updateFails)

\* unlink of the file when it exists.
RemoveFile(files, file) == files \ {file}

RECURSIVE deleteParagraphFiles(_, _, _)
deleteParagraphFiles(files, paragraphs, i) ==
  IF i > Len(paragraphs) THEN files
  ELSE deleteParagraphFiles(
         IF paragraphs[i].audioFileName # NoFile
         THEN RemoveFile(files, WithExtension(paragraphs[i].audioFileName, "mp3"))
         ELSE files,
         paragraphs, i + 1)

\* The document has no audioSegments rows: nothing creates them.
deleteAssociatedAudioFiles(files, document) ==
  RemoveFile(deleteParagraphFiles(files, document.paragraphs, 1), document.originalAudioUrl)

\* persistenceFails: prisma.document.findUnique throws.
deleteDocument(db, id, persistenceFails) ==
  IF persistenceFails THEN Outcome(db, "DeleteDocumentFailed", id, << >>, << >>, {})
  ELSE IF id \notin DOMAIN db.documents THEN Outcome(db, "false", id, << >>, << >>, {})
  ELSE Outcome([db EXCEPT !.audioFiles = deleteAssociatedAudioFiles(@, db.documents[id]),
                          !.documents = [d \in (DOMAIN @) \ {id} |-> @[d]]],
               "true", id, << >>, << >>, {})

getSpeechById(db, id, persistenceFails) ==
  IF persistenceFails THEN Outcome(db, "PersistenceError", id, << >>, << >>, {})
  ELSE IF \A r \in db.speechRecords : r.id # id
  THEN Outcome(db, "SpeechNotFound", id, << >>, << >>, {})
  ELSE Outcome(db, "returned", id, << >>, << >>, {})

deleteSpeech(db, id, persistenceFails) ==
  IF persistenceFails THEN Outcome(db, "DeleteSpeechFailed", id, << >>, << >>, {})
  ELSE IF \A r \in db.speechRecords : r.id # id THEN Outcome(db, "false", id, << >>, << >>, {})
  ELSE Outcome([db EXCEPT !.audioFiles =
                  @ \ {WithExtension(r.fileName, r.outputFormat) :
                         r \in {q \in db.speechRecords : q.id = id}},
                          !.speechRecords = {q \in @ : q.id # id}],
               "true", id, << >>, << >>, {})

\* The synthesis calls and the paragraph updates that fail in a batch.
StoreFailures == {<<{}, {}>>, <<{1}, {}>>, <<{2}, {}>>, <<{1, 2}, {}>>, <<{}, {1}>>}

\* The ids lookups and deletes are called with, and the documents one
\* behaviour creates.
StoreIds == {1, 2}

(***************************************************************************)
(* SpeechService.generateSpeech step by step.  Calls of concurrent         *)
(* requests interleave at the awaits: the lookup of the record, the        *)
(* synthesis with the write of the file, the creation of the record.       *)
(***************************************************************************)
\* Calls a client makes one after the other.
MaxSpeechCalls == 2

SpeechClients == {1, 2}

\* "Aa" and "BB" have the same simpleHash.
SpeechRequests ==
  {[text |-> <<"A", "a">>, voiceId |-> "Joanna", outputFormat |-> "mp3"],
   [text |-> <<"B", "B">>, voiceId |-> "Joanna", outputFormat |-> "mp3"],
   [text |-> <<"A", "a">>, voiceId |-> "Matthew", outputFormat |-> "mp3"]}

NoSpeechResponse ==
  [audioUrl |-> NoFile, fileName |-> NoFile, duration |-> NoDuration,
   voiceId |-> "", outputFormat |-> "", originalText |-> << >>]

formatSpeechResponse(record) ==
  [audioUrl |-> record.audioUrl, fileName |-> record.fileName,
   duration |-> record.duration, voiceId |-> record.voiceId,
   outputFormat |-> record.outputFormat, originalText |-> record.originalText]

\* findExistingSpeech: findFirst returns one of the records of the cache
\* key, or null (the empty set here).
findExistingSpeech(db, cacheKey) ==
  IF \A r \in db.speechRecords : r.cacheKey # cacheKey THEN {{}}
  ELSE {{r} : r \in {q \in db.speechRecords : q.cacheKey = cacheKey}}

\* `speech_${uuidv4()}`: a name no other call draws.
speechFileName(client, call) == FileRef(0, "speech", client, call, "")

\* englishSpeechRecord.create: the record is stored under its generated id.
createSpeechRecord(db, record) ==
  [db EXCEPT !.speechRecords = @ \cup {record}, !.issued.speech = @ + 1]

\* What the call does with the record the lookup gave it: answer with it
\* when its file exists, delete it (which throws when it is gone) otherwise.
existingSpeechFound(db, call, record) ==
  IF WithExtension(record.fileName, call.outputFormat) \in db.audioFiles
  THEN [db |-> db, pc |-> "returned", response |-> formatSpeechResponse(record)]
  ELSE IF record \in db.speechRecords
  THEN [db |-> [db EXCEPT !.speechRecords = @ \ {record}], pc |-> "synthesize",
        response |-> NoSpeechResponse]
  ELSE [db |-> db, pc |-> "threw", response |-> NoSpeechResponse]

(***************************************************************************)
(* The segmentDuration of a match request, from the form field to the      *)
(* loop of segmentByTime.  The class "neg" marks a number below zero.  The  *)
(* durations and the lengths here are whole seconds, whose sums are exact: *)
(* the loop counts them as integers.                                       *)
(***************************************************************************)
\* Iterations of segmentByTime's loop the model follows.
MaxLoopSegments == 10

\* The form field: absent, or a string.
RawSegmentDurations ==
  {<< >>, <<"0">>, <<"2">>, <<"-", "5">>, <<"x">>, <<"5", "x">>}

PassParagraphCounts == {0, 1, 4}

Digits == {"0", "2", "5"}

DigitValue(c) == CASE c = "0" -> 0 [] c = "2" -> 2 [] OTHER -> 5

RECURSIVE DecimalValue(_, _)
DecimalValue(digits, value) ==
  IF digits = << >> THEN value
  ELSE DecimalValue(Tail(digits), 10 * value + DigitValue(Head(digits)))

Negated(x) == IF x.m = << >> THEN x ELSE [x EXCEPT !.cls = IF @ = "neg" THEN "fin" ELSE "neg"]

Magnitude(x) == [x EXCEPT !.cls = "fin"]

\* parseFloat of an optional sign and decimal digits: the longest numeric
\* prefix, NaN when there is none.
parseFloatOf(sign, body) ==
  IF RunLength(body, Digits) = 0 THEN NaN
  ELSE IF sign = "-"
  THEN Negated(FromInt(DecimalValue(SubSeq(body, 1, RunLength(body, Digits)), 0)))
  ELSE FromInt(DecimalValue(SubSeq(body, 1, RunLength(body, Digits)), 0))

parseFloat(str) ==
  IF str # << >> /\ Head(str) \in {"-", "+"} THEN parseFloatOf(Head(str), Tail(str))
  ELSE parseFloatOf("+", str)

\* The controller: `segmentDuration ? parseFloat(segmentDuration) : 30`.
segmentDurationOption(raw) == IF raw = << >> THEN FromInt(30) ELSE parseFloat(raw)

\* segmentAudio: `options.segmentDuration || 30` (NaN and 0 are falsy).
segmentDurationOrDefault(segmentDuration) ==
  IF segmentDuration.cls = "nan" \/ segmentDuration.m = << >> THEN FromInt(30)
  ELSE segmentDuration

\* The bound of the loop of a strategy: `i < minLength` in oneToOneMatch,
\* `i < paragraphs.length` in mergeAudioSegments, `i < audioSegments.length`
\* in splitAudioSegments.
matchLoopLength(strategy, paragraphCount, segmentCount) ==
  CASE strategy = "oneToOne" -> MinInt(paragraphCount, segmentCount)
    [] strategy = "merge" -> paragraphCount
    [] OTHER -> segmentCount

\* A whole number of seconds as the integer it is.
WholeSeconds(x) == IF x.cls = "neg" THEN 0 - CeilToInt(Magnitude(x)) ELSE CeilToInt(x)

(***************************************************************************)
(* A pass of adapter calls: the loops of generateAudioForParagraphs and of *)
(* generateSegmentAudios issue one call per item and await it.             *)
(***************************************************************************)
\* Items of a pass.
MaxPassCalls == 5

AdapterPasses == {"generateAudioForParagraphs", "generateSegmentAudios"}

\* A loop that goes on without awaiting.
awaited_NotAwaited(inFlight) == TRUE

\* `await`: the loop goes on once the call it issued has settled.
awaited(inFlight) == inFlight = {}

(***************************************************************************)
(* State.  The planner, the normaliser and the matcher are stateless       *)
(* services: a behaviour is one call, whose inputs the initial state       *)
(* draws and whose result the call's action stores.                        *)
(***************************************************************************)
VARIABLES
  planCall,                \* planner: the call and its inputs
  segments,                \* planner: the list it returned
  textCall,                \* normaliser: the call and its input text
  cleanContent,            \* normaliser: the text it returned
  matchCall,               \* matchDocumentWithAudio: the call, its inputs, its outcome
  audioSegments,           \* the segments segmentAudio planned for the match
  paragraphs,              \* the paragraph rows of the matched document
  processedAudioSegments,  \* the pairings the match returned
  needsManualAdjustment,   \* the flag the match returned
  strategyRun,             \* the strategy the match ran
  parseCall,               \* parser: the call and its input text
  parsed,                  \* parser: the document it returned
  cacheCall,               \* cache: the last operation, its key and its result
  cache,                   \* cache: the Map's items in insertion order
  uploadCall,              \* uploadToS3: the call, its arguments and where it stands
  retryCount,              \* uploadToS3: retryCount
  sent,                    \* uploadToS3: the outcome of every send so far
  uploaded,                \* uploadToS3: the URL returned, the error thrown, the delay awaited
  store,                   \* the document rows, the speech records and the files of public/audio
  storeCall,               \* the last call on the store and its arguments
  storeResult,             \* what that call threw or returned
  speechCalls,             \* generateSpeech: where each concurrent call stands, its request and its response
  segmentPass,             \* a 'time' match request: where it stands in segmentByTime's loop and in the matcher
  adapterPass              \* a synthesis or extraction pass: the adapter calls issued, in flight and settled

plannerVars == <<planCall, segments>>

textVars == <<textCall, cleanContent>>

matchVars == <<matchCall, audioSegments, paragraphs, processedAudioSegments,
               needsManualAdjustment, strategyRun>>

parseVars == <<parseCall, parsed>>

cacheVars == <<cacheCall, cache>>

uploadVars == <<uploadCall, retryCount, sent, uploaded>>

storeVars == <<store, storeCall, storeResult>>

speechVars == <<speechCalls>>

passVars == <<segmentPass>>

adapterVars == <<adapterPass>>

vars == <<plannerVars, textVars, matchVars, parseVars, cacheVars, uploadVars, storeVars, speechVars, passVars, adapterVars>>

NoPlannerCall ==
  [op |-> "none", returned |-> FALSE, paragraphCount |-> 0, fileSize |-> 0,
   totalDuration |-> Zero, segmentDuration |-> Zero]

\* A planner call: its inputs, and whether it has returned.
PlannerCalls ==
  {[op |-> "segmentByTextParagraphs", returned |-> FALSE, paragraphCount |-> n,
    fileSize |-> 0, totalDuration |-> FromInt(d), segmentDuration |-> Zero]
     : n \in 0..MaxCount, d \in 0..MaxDuration}
  \cup
  {[op |-> "segmentByTime", returned |-> FALSE, paragraphCount |-> 0,
    fileSize |-> size, totalDuration |-> getAudioInfo(size).duration,
    segmentDuration |-> len]
     : size \in AudioFileSizes, len \in SegmentLengths}

NoTextCall == [op |-> "none", returned |-> FALSE, text |-> << >>]

TextCalls == {[op |-> "cleanText", returned |-> FALSE, text |-> t] : t \in Texts}

NoMatchCall ==
  [status |-> "none", paragraphCount |-> 0, fileSize |-> 0, segmentStrategy |-> "manual",
   segmentDuration |-> 0, extractFails |-> {}, updateFails |-> {}]

\* The pairings whose extraction fails and, among the others, those whose
\* paragraph update fails.
FailureChoices ==
  {f \in (SUBSET (1..MaxFailedPairing)) \X (SUBSET (1..MaxFailedPairing)) :
     f[1] \cap f[2] = {}}

\* A match: the number of paragraphs of the uploaded document, the size of
\* the uploaded audio, the segmentation options, and the extractions and
\* paragraph updates that will fail.
MatchCalls ==
  {[status |-> "pending", paragraphCount |-> n, fileSize |-> size,
    segmentStrategy |-> opt[1], segmentDuration |-> opt[2],
    extractFails |-> f[1], updateFails |-> f[2]]
     : n \in 0..MaxParagraphs, size \in MatchFileSizes,
       opt \in ({"time"} \X (0..MaxSegmentSeconds)) \cup {<<"manual", 0>>},
       f \in FailureChoices}

\* The matches of the documented scenarios: 10 paragraphs against 10, 13 and
\* 15 one-second segments, nothing failing.
ScenarioCalls ==
  {[status |-> "pending", paragraphCount |-> 10, fileSize |-> 16000 * u,
    segmentStrategy |-> "time", segmentDuration |-> 1,
    extractFails |-> {}, updateFails |-> {}] : u \in {10, 13, 15}}

NoParseCall == [op |-> "none", returned |-> FALSE, text |-> << >>]

ParseCalls == {[op |-> "parseDocumentContent", returned |-> FALSE, text |-> t] : t \in ParseTexts}

PlannerIdle == planCall = NoPlannerCall /\ segments = << >>

TextIdle == textCall = NoTextCall /\ cleanContent = << >>

MatchIdle ==
  /\ matchCall = NoMatchCall
  /\ audioSegments = << >>
  /\ paragraphs = << >>
  /\ processedAudioSegments = << >>
  /\ needsManualAdjustment = FALSE
  /\ strategyRun = "none"

ParseIdle == parseCall = NoParseCall /\ parsed = parsedDocument(<< >>, << >>)

NoCacheCall == [op |-> "none", key |-> "", result |-> "none"]

CacheIdle == cacheCall = NoCacheCall /\ cache = << >>

NoUploadCall == [status |-> "none", key |-> "", outputFormat |-> "mp3"]

UploadCalls ==
  {[status |-> "send", key |-> k, outputFormat |-> f] : k \in UploadKeys, f \in UploadFormats}

UploadIdle ==
  /\ uploadCall = NoUploadCall
  /\ retryCount = 0
  /\ sent = << >>
  /\ uploaded = [url |-> NoS3Url, error |-> "none", delay |-> 0]

NoOutcome == Outcome(EmptyStore, "none", 0, << >>, << >>, {})

NoStoreCall ==
  [op |-> "none", id |-> 0, content |-> << >>, generateAudio |-> FALSE,
   outputFormat |-> "mp3", audioOptions |-> <<"manual", 0>>,
   fails |-> <<{}, {}>>, persistenceFails |-> "none"]

StoreIdle == store = EmptyStore /\ storeCall = NoStoreCall /\ storeResult = NoOutcome

NoSpeechCall ==
  [pc |-> "idle", calls |-> 0, text |-> << >>, voiceId |-> "", outputFormat |-> "",
   existing |-> {}, response |-> NoSpeechResponse]

SpeechIdle == speechCalls = [client \in SpeechClients |-> NoSpeechCall]

NoSegmentPass ==
  [status |-> "none", paragraphCount |-> 0, fileSize |-> 0, raw |-> << >>,
   duration |-> 0, segmentDuration |-> 0, start |-> 0, count |-> 0,
   strategyFor |-> << >>, strategy |-> "none", i |-> 0]

\* A match request of the 'time' strategy at the first test of the loop.
\* strategyFor tabulates chooseStrategy for the paragraphs of the request:
\* the strategy the matcher will choose for a list of s - 1 segments.
SegmentPasses ==
  {[status |-> "segmenting", paragraphCount |-> n, fileSize |-> size, raw |-> raw,
    duration |-> WholeSeconds(getAudioInfo(size).duration),
    segmentDuration |-> WholeSeconds(segmentDurationOrDefault(segmentDurationOption(raw))),
    start |-> 0, count |-> 0,
    strategyFor |-> [s \in 1..(MaxLoopSegments + 1) |-> chooseStrategy(n, s - 1)],
    strategy |-> "none", i |-> 0]
     : n \in PassParagraphCounts, size \in MatchFileSizes, raw \in RawSegmentDurations}

SegmentPassIdle == segmentPass = NoSegmentPass

NoAdapterPass == [pass |-> "none", items |-> 0, issued |-> 0, inFlight |-> {}, settled |-> << >>, returned |-> FALSE]

AdapterPassCalls ==
  {[pass |-> pass, items |-> n, issued |-> 0, inFlight |-> {}, settled |-> << >>, returned |-> FALSE]
     : pass \in AdapterPasses, n \in 0..MaxPassCalls}

AdapterPassIdle == adapterPass = NoAdapterPass

(***************************************************************************)
(* The planner's calls.                                                    *)
(***************************************************************************)
InitPlanner ==
  /\ planCall \in PlannerCalls
  /\ segments = << >>
  /\ TextIdle
  /\ MatchIdle
  /\ ParseIdle
  /\ CacheIdle
  /\ UploadIdle
  /\ StoreIdle
  /\ SpeechIdle
  /\ SegmentPassIdle
  /\ AdapterPassIdle

segmentByTextParagraphsCall ==
  /\ planCall.op = "segmentByTextParagraphs"
  /\ ~planCall.returned
  /\ segments' = segmentByTextParagraphs(planCall.paragraphCount, planCall.totalDuration)
  /\ planCall' = [planCall EXCEPT !.returned = TRUE]
  /\ UNCHANGED <<textVars, matchVars, parseVars, cacheVars, uploadVars, storeVars, speechVars, passVars, adapterVars>>

segmentByTimeCall ==
  /\ planCall.op = "segmentByTime"
  /\ ~planCall.returned
  /\ segments' = segmentByTime(planCall.fileSize, planCall.segmentDuration)
  /\ planCall' = [planCall EXCEPT !.returned = TRUE]
  /\ UNCHANGED <<textVars, matchVars, parseVars, cacheVars, uploadVars, storeVars, speechVars, passVars, adapterVars>>

NextPlanner == segmentByTextParagraphsCall \/ segmentByTimeCall

SpecPlanner == InitPlanner /\ [][NextPlanner]_vars

(***************************************************************************)
(* The normaliser's call.                                                  *)
(***************************************************************************)
InitText ==
  /\ textCall \in TextCalls
  /\ cleanContent = << >>
  /\ PlannerIdle
  /\ MatchIdle
  /\ ParseIdle
  /\ CacheIdle
  /\ UploadIdle
  /\ StoreIdle
  /\ SpeechIdle
  /\ SegmentPassIdle
  /\ AdapterPassIdle

cleanTextCall ==
  /\ textCall.op = "cleanText"
  /\ ~textCall.returned
  /\ cleanContent' = cleanText(textCall.text)
  /\ textCall' = [textCall EXCEPT !.returned = TRUE]
  /\ UNCHANGED <<plannerVars, matchVars, parseVars, cacheVars, uploadVars, storeVars, speechVars, passVars, adapterVars>>

NextText == cleanTextCall

SpecText == InitText /\ [][NextText]_vars

(***************************************************************************)
(* matchDocumentWithAudio: plan the segments, save the document, match.    *)
(***************************************************************************)
InitMatch ==
  /\ matchCall \in MatchCalls \cup ScenarioCalls
  /\ audioSegments = << >>
  /\ paragraphs = << >>
  /\ processedAudioSegments = << >>
  /\ needsManualAdjustment = FALSE
  /\ strategyRun = "none"
  /\ PlannerIdle
  /\ TextIdle
  /\ ParseIdle
  /\ CacheIdle
  /\ UploadIdle
  /\ StoreIdle
  /\ SpeechIdle
  /\ SegmentPassIdle
  /\ AdapterPassIdle

\* What the function results in for the caller once the segments are planned.
matchDocumentWithAudioFrom(segs, matched) ==
  /\ audioSegments' = segs
  /\ paragraphs' = matched.rows
  /\ strategyRun' = matched.strategy
  /\ processedAudioSegments' = IF matched.threw THEN << >> ELSE matched.audioSegments
  /\ needsManualAdjustment' = (~matched.threw /\ matched.needsManualAdjustment)
  /\ matchCall' = [matchCall EXCEPT
                     !.status = IF matched.threw THEN "threw" ELSE "returned"]

matchDocumentWithAudio ==
  /\ matchCall.status = "pending"
  /\ \E segs \in {segmentAudio(matchCall.fileSize, matchCall.segmentStrategy,
                                matchCall.segmentDuration)} :
       matchDocumentWithAudioFrom(segs,
         matchParagraphsWithAudioSegments(savedParagraphs(matchCall.paragraphCount), segs,
                                          matchCall.extractFails, matchCall.updateFails))
  /\ UNCHANGED <<plannerVars, textVars, parseVars, cacheVars, uploadVars, storeVars, speechVars, passVars, adapterVars>>

NextMatch == matchDocumentWithAudio

SpecMatch == InitMatch /\ [][NextMatch]_vars

(***************************************************************************)
(* The parser's call.                                                      *)
(***************************************************************************)
InitParse ==
  /\ parseCall \in ParseCalls
  /\ parsed = parsedDocument(<< >>, << >>)
  /\ PlannerIdle
  /\ TextIdle
  /\ MatchIdle
  /\ CacheIdle
  /\ UploadIdle
  /\ StoreIdle
  /\ SpeechIdle
  /\ SegmentPassIdle
  /\ AdapterPassIdle

parseDocumentContentCall ==
  /\ parseCall.op = "parseDocumentContent"
  /\ ~parseCall.returned
  /\ parsed' = parseDocumentContent(parseCall.text)
  /\ parseCall' = [parseCall EXCEPT !.returned = TRUE]
  /\ UNCHANGED <<plannerVars, textVars, matchVars, cacheVars, uploadVars, storeVars, speechVars, passVars, adapterVars>>

NextParse == parseDocumentContentCall

SpecParse == InitParse /\ [][NextParse]_vars

(***************************************************************************)
(* The cache's operations, in any order and at any clock values.           *)
(***************************************************************************)
InitCache ==
  /\ CacheIdle
  /\ PlannerIdle
  /\ TextIdle
  /\ MatchIdle
  /\ ParseIdle
  /\ UploadIdle
  /\ StoreIdle
  /\ SpeechIdle
  /\ SegmentPassIdle
  /\ AdapterPassIdle

CacheSetCall ==
  \E key \in CacheKeys, ttl \in TtlValues, now \in ClockValues, timestamp \in ClockValues :
    /\ cache' = cacheSet(cache, key, ttl, now, timestamp)
    /\ cacheCall' = [op |-> "set", key |-> key, result |-> "void"]
    /\ UNCHANGED <<plannerVars, textVars, matchVars, parseVars, uploadVars, storeVars, speechVars, passVars, adapterVars>>

CacheGetCall ==
  \E key \in CacheKeys, now \in ClockValues :
    /\ cache' = cacheGet(cache, key, now)
    /\ cacheCall' = [op |-> "get", key |-> key, result |-> cacheGetResult(cache, key, now)]
    /\ UNCHANGED <<plannerVars, textVars, matchVars, parseVars, uploadVars, storeVars, speechVars, passVars, adapterVars>>

CacheDeleteCall ==
  \E key \in CacheKeys :
    /\ cache' = cacheDelete(cache, key)
    /\ cacheCall' = [op |-> "delete", key |-> key,
                     result |-> IF CacheIndex(cache, key) = 0 THEN "false" ELSE "true"]
    /\ UNCHANGED <<plannerVars, textVars, matchVars, parseVars, uploadVars, storeVars, speechVars, passVars, adapterVars>>

CacheClearCall ==
  /\ cache' = << >>
  /\ cacheCall' = [op |-> "clear", key |-> "", result |-> "void"]
  /\ UNCHANGED <<plannerVars, textVars, matchVars, parseVars, uploadVars, storeVars, speechVars, passVars, adapterVars>>

NextCache == CacheSetCall \/ CacheGetCall \/ CacheDeleteCall \/ CacheClearCall

SpecCache == InitCache /\ [][NextCache]_vars

(***************************************************************************)
(* One call of uploadToS3, attempt by attempt.                             *)
(***************************************************************************)
InitUpload ==
  /\ uploadCall \in UploadCalls
  /\ retryCount = 0
  /\ sent = << >>
  /\ uploaded = [url |-> NoS3Url, error |-> "none", delay |-> 0]
  /\ PlannerIdle
  /\ TextIdle
  /\ MatchIdle
  /\ ParseIdle
  /\ CacheIdle
  /\ StoreIdle
  /\ SpeechIdle
  /\ SegmentPassIdle
  /\ AdapterPassIdle

\* One pass of the loop body: the send, and the return or the catch block.
uploadAttempt ==
  /\ uploadCall.status = "send"
  /\ retryCount < maxRetries
  /\ \E outcome \in SendOutcomes :
       /\ sent' = Append(sent, outcome)
       /\ IF outcome = "ok"
          THEN /\ uploadCall' = [uploadCall EXCEPT !.status = "returned"]
               /\ uploaded' = [uploaded EXCEPT !.url = S3Url(uploadCall.key), !.delay = 0]
               /\ UNCHANGED retryCount
          ELSE /\ retryCount' = retryCount + 1
               /\ uploadCall' = [uploadCall EXCEPT !.status = afterFailedAttempt(retryCount + 1)]
               /\ uploaded' =
                    IF afterFailedAttempt(retryCount + 1) = "threw"
                    THEN [uploaded EXCEPT !.error = outcome, !.delay = 0]
                    ELSE [uploaded EXCEPT !.delay = RetryDelayMillis * (retryCount + 1)]
  /\ UNCHANGED <<plannerVars, textVars, matchVars, parseVars, cacheVars, storeVars, speechVars, passVars, adapterVars>>

\* The timer of the catch block fires and the loop condition is tested.
uploadRetry ==
  /\ uploadCall.status = "sleep"
  /\ IF retryCount < maxRetries
     THEN /\ uploadCall' = [uploadCall EXCEPT !.status = "send"]
          /\ uploaded' = [uploaded EXCEPT !.delay = 0]
     ELSE /\ uploadCall' = [uploadCall EXCEPT !.status = "threw"]
          /\ uploaded' = [uploaded EXCEPT !.error = "S3UploadFailed", !.delay = 0]
  /\ UNCHANGED <<retryCount, sent>>
  /\ UNCHANGED <<plannerVars, textVars, matchVars, parseVars, cacheVars, storeVars, speechVars, passVars, adapterVars>>

NextUpload == uploadAttempt \/ uploadRetry

SpecUpload == InitUpload /\ [][NextUpload]_vars

\* Every send settles and every timer fires.
SpecUploadFair == SpecUpload /\ WF_vars(uploadAttempt) /\ WF_vars(uploadRetry)

(***************************************************************************)
(* The calls of the document service and of the speech service on one      *)
(* store, one after the other.                                             *)
(***************************************************************************)
InitStore ==
  /\ StoreIdle
  /\ PlannerIdle
  /\ TextIdle
  /\ MatchIdle
  /\ ParseIdle
  /\ CacheIdle
  /\ UploadIdle
  /\ SpeechIdle
  /\ SegmentPassIdle
  /\ AdapterPassIdle

\* A call ends: the store it leaves, and what the caller gets.
StoreCallEnds(call, result) ==
  /\ storeCall' = call
  /\ store' = result.db
  /\ storeResult' = [result EXCEPT !.db = EmptyStore]
  /\ UNCHANGED <<plannerVars, textVars, matchVars, parseVars, cacheVars, uploadVars, speechVars, passVars, adapterVars>>

processDocumentWithAudioCall ==
  /\ store.issued.document < Cardinality(StoreIds)
  /\ \E content \in StoreTexts \ {<< >>}, outputFormat \in OutputFormats,
        given \in {<<FALSE, <<{}, {}>>, "none">>, <<TRUE, <<{}, {}>>, "create">>,
                   <<TRUE, <<{}, {}>>, "fetch">>}
                  \cup {<<TRUE, f, "none">> : f \in StoreFailures} :
       /\ given[1] \/ outputFormat = "mp3"
       /\ outputFormat = "mp3" \/ (given[2] = <<{}, {}>> /\ given[3] = "none")
       /\ StoreCallEnds(
            [NoStoreCall EXCEPT !.op = "processDocumentWithAudio", !.content = content,
                                !.generateAudio = given[1], !.outputFormat = outputFormat,
                                !.fails = given[2], !.persistenceFails = given[3]],
            processDocumentWithAudio(store, content, given[1], outputFormat,
                                     given[2][1], given[2][2], given[3]))

matchDocumentWithAudioCall ==
  /\ store.issued.document < Cardinality(StoreIds)
  /\ \E content \in StoreTexts \ {<< >>}, audioOptions \in StoreAudioOptions,
        f \in {<<{}, {}>>, <<{1}, {}>>, <<{}, {1}>>} :
       StoreCallEnds(
         [NoStoreCall EXCEPT !.op = "matchDocumentWithAudio", !.content = content,
                             !.audioOptions = audioOptions, !.fails = f],
         matchDocumentWithAudioIn(store, content, audioOptions, f[1], f[2]))

getDocumentByIdCall ==
  \E id \in StoreIds, persistenceFails \in {"none", "find"} :
    StoreCallEnds(
      [NoStoreCall EXCEPT !.op = "getDocumentById", !.id = id,
                          !.persistenceFails = persistenceFails],
      getDocumentById(store, id, persistenceFails = "find"))

deleteDocumentCall ==
  \E id \in StoreIds, persistenceFails \in {"none", "find"} :
    StoreCallEnds(
      [NoStoreCall EXCEPT !.op = "deleteDocument", !.id = id,
                          !.persistenceFails = persistenceFails],
      deleteDocument(store, id, persistenceFails = "find"))

getSpeechByIdCall ==
  \E id \in StoreIds, persistenceFails \in {"none", "find"} :
    StoreCallEnds(
      [NoStoreCall EXCEPT !.op = "getSpeechById", !.id = id,
                          !.persistenceFails = persistenceFails],
      getSpeechById(store, id, persistenceFails = "find"))

deleteSpeechCall ==
  \E id \in StoreIds, persistenceFails \in {"none", "find"} :
    StoreCallEnds(
      [NoStoreCall EXCEPT !.op = "deleteSpeech", !.id = id,
                          !.persistenceFails = persistenceFails],
      deleteSpeech(store, id, persistenceFails = "find"))

NextStore ==
  \/ processDocumentWithAudioCall
  \/ matchDocumentWithAudioCall
  \/ getDocumentByIdCall
  \/ deleteDocumentCall
  \/ getSpeechByIdCall
  \/ deleteSpeechCall

SpecStore == InitStore /\ [][NextStore]_vars

(***************************************************************************)
(* The planner's calls and the matches together: every producer of a time  *)
(* range.                                                                  *)
(***************************************************************************)
InitRanges == InitPlanner \/ InitMatch

NextRanges == NextPlanner \/ NextMatch

SpecRanges == InitRanges /\ [][NextRanges]_vars

(***************************************************************************)
(* The store under documents processed and deleted only.                   *)
(***************************************************************************)
NextDocuments == processDocumentWithAudioCall \/ deleteDocumentCall

SpecDocuments == InitStore /\ [][NextDocuments]_vars

(***************************************************************************)
(* Concurrent generateSpeech calls on one database and audio directory.    *)
(***************************************************************************)
InitSpeech ==
  /\ SpeechIdle
  /\ PlannerIdle
  /\ TextIdle
  /\ MatchIdle
  /\ ParseIdle
  /\ CacheIdle
  /\ UploadIdle
  /\ StoreIdle
  /\ SegmentPassIdle
  /\ AdapterPassIdle

\* The call up to the answer of findExistingSpeech.
generateSpeechCall(client) ==
  /\ speechCalls[client].pc \in {"idle", "returned", "threw"}
  /\ speechCalls[client].calls < MaxSpeechCalls
  /\ \E request \in SpeechRequests :
       \E existing \in findExistingSpeech(store,
              generateCacheKey(request.text, request.voiceId, request.outputFormat)) :
         speechCalls' = [speechCalls EXCEPT ![client] =
            [pc |-> "found", calls |-> @.calls + 1, text |-> request.text,
             voiceId |-> request.voiceId, outputFormat |-> request.outputFormat,
             existing |-> existing, response |-> NoSpeechResponse]]
  /\ UNCHANGED <<plannerVars, textVars, matchVars, parseVars, cacheVars, uploadVars, storeVars, passVars, adapterVars>>

\* From the answer of the lookup to the return, the throw or the synthesis.
generateSpeechLookedUp(client) ==
  /\ speechCalls[client].pc = "found"
  /\ \E after \in IF speechCalls[client].existing = {}
                  THEN {[db |-> store, pc |-> "synthesize", response |-> NoSpeechResponse]}
                  ELSE {existingSpeechFound(store, speechCalls[client], r)
                          : r \in speechCalls[client].existing} :
       /\ store' = after.db
       /\ speechCalls' = [speechCalls EXCEPT ![client].pc = after.pc,
                                             ![client].response = after.response]
  /\ UNCHANGED <<plannerVars, textVars, matchVars, parseVars, cacheVars, uploadVars,
                 storeCall, storeResult, passVars, adapterVars>>

\* synthesizeSpeech and saveToLocal: the synthesis throws, or the file is written.
generateSpeechSynthesized(client) ==
  /\ speechCalls[client].pc = "synthesize"
  /\ \E synthesisFails \in BOOLEAN :
       IF synthesisFails
       THEN /\ speechCalls' = [speechCalls EXCEPT ![client].pc = "threw"]
            /\ store' = store
       ELSE /\ speechCalls' = [speechCalls EXCEPT ![client].pc = "create"]
            /\ store' = [store EXCEPT !.audioFiles = @ \cup
                 {WithExtension(speechFileName(client, speechCalls[client].calls),
                                speechCalls[client].outputFormat)}]
  /\ UNCHANGED <<plannerVars, textVars, matchVars, parseVars, cacheVars, uploadVars,
                 storeCall, storeResult, passVars, adapterVars>>

\* The record is created and the call answers with it.
generateSpeechCreated(client) ==
  /\ speechCalls[client].pc = "create"
  /\ \E record \in {speechRecord(store.issued.speech + 1,
                      generateCacheKey(speechCalls[client].text, speechCalls[client].voiceId,
                                       speechCalls[client].outputFormat),
                      speechCalls[client].text, speechCalls[client].outputFormat,
                      speechFileName(client, speechCalls[client].calls))} :
       /\ store' = createSpeechRecord(store, record)
       /\ speechCalls' = [speechCalls EXCEPT ![client].pc = "returned",
                                             ![client].response = formatSpeechResponse(record)]
  /\ UNCHANGED <<plannerVars, textVars, matchVars, parseVars, cacheVars, uploadVars,
                 storeCall, storeResult, passVars, adapterVars>>

\* A file of the audio directory is unlinked (deleteAssociatedAudioFiles).
audioFileUnlinked ==
  /\ \E file \in store.audioFiles : store' = [store EXCEPT !.audioFiles = RemoveFile(@, file)]
  /\ UNCHANGED <<plannerVars, textVars, matchVars, parseVars, cacheVars, uploadVars,
                 storeCall, storeResult, speechVars, passVars, adapterVars>>

NextSpeech ==
  \/ \E client \in SpeechClients :
       \/ generateSpeechCall(client)
       \/ generateSpeechLookedUp(client)
       \/ generateSpeechSynthesized(client)
       \/ generateSpeechCreated(client)
  \/ audioFileUnlinked

SpecSpeech == InitSpeech /\ [][NextSpeech]_vars

(***************************************************************************)
(* A 'time' match request, iteration by iteration of segmentByTime's loop, *)
(* then through the matcher.                                               *)
(***************************************************************************)
InitSegmentPass ==
  /\ segmentPass \in SegmentPasses
  /\ PlannerIdle
  /\ TextIdle
  /\ MatchIdle
  /\ ParseIdle
  /\ CacheIdle
  /\ UploadIdle
  /\ StoreIdle
  /\ SpeechIdle
  /\ AdapterPassIdle

\* `start < audioInfo.duration`: a segment is pushed and `start += segmentDuration`.
segmentByTimeIteration ==
  /\ segmentPass.status = "segmenting"
  /\ segmentPass.count < MaxLoopSegments
  /\ segmentPass.start < segmentPass.duration
  /\ segmentPass' = [segmentPass EXCEPT !.start = @ + segmentPass.segmentDuration,
                                        !.count = @ + 1]
  /\ UNCHANGED <<plannerVars, textVars, matchVars, parseVars, cacheVars, uploadVars, storeVars, speechVars, adapterVars>>

\* The test of the loop fails: segmentByTime returns its list and the
\* matcher chooses its strategy for it.
segmentByTimeReturns ==
  /\ segmentPass.status = "segmenting"
  /\ ~(segmentPass.start < segmentPass.duration)
  /\ segmentPass' = [segmentPass EXCEPT
                       !.status = "matching",
                       !.strategy = segmentPass.strategyFor[segmentPass.count + 1]]
  /\ UNCHANGED <<plannerVars, textVars, matchVars, parseVars, cacheVars, uploadVars, storeVars, speechVars, adapterVars>>

\* An iteration of the (outer) loop of the strategy.
matchingIteration ==
  /\ segmentPass.status = "matching"
  /\ segmentPass.i < matchLoopLength(segmentPass.strategy, segmentPass.paragraphCount,
                                     segmentPass.count)
  /\ segmentPass' = [segmentPass EXCEPT !.i = @ + 1]
  /\ UNCHANGED <<plannerVars, textVars, matchVars, parseVars, cacheVars, uploadVars, storeVars, speechVars, adapterVars>>

\* The loop of the strategy is over: the match returns.
matchingReturns ==
  /\ segmentPass.status = "matching"
  /\ ~(segmentPass.i < matchLoopLength(segmentPass.strategy, segmentPass.paragraphCount,
                                       segmentPass.count))
  /\ segmentPass' = [segmentPass EXCEPT !.status = "completed"]
  /\ UNCHANGED <<plannerVars, textVars, matchVars, parseVars, cacheVars, uploadVars, storeVars, speechVars, adapterVars>>

NextSegmentPass ==
  segmentByTimeIteration \/ segmentByTimeReturns \/ matchingIteration \/ matchingReturns

SpecSegmentPass == InitSegmentPass /\ [][NextSegmentPass]_vars

\* The runtime keeps executing the request.
SpecSegmentPassFair == SpecSegmentPass /\ WF_vars(NextSegmentPass)

(***************************************************************************)
(* A pass of adapter calls.                                                *)
(***************************************************************************)
InitAdapterPass ==
  /\ adapterPass \in AdapterPassCalls
  /\ PlannerIdle
  /\ TextIdle
  /\ MatchIdle
  /\ ParseIdle
  /\ CacheIdle
  /\ UploadIdle
  /\ StoreIdle
  /\ SpeechIdle
  /\ SegmentPassIdle

\* The loop reaches the call of its next item.
adapterCallIssued ==
  /\ ~adapterPass.returned
  /\ adapterPass.issued < adapterPass.items
  /\ awaited(adapterPass.inFlight)
  /\ adapterPass' = [adapterPass EXCEPT !.issued = @ + 1,
                                        !.inFlight = @ \cup {adapterPass.issued + 1}]
  /\ UNCHANGED <<plannerVars, textVars, matchVars, parseVars, cacheVars, uploadVars, storeVars, speechVars, passVars>>

\* A call in flight resolves, or rejects into the catch of the loop body.
adapterCallSettled ==
  /\ \E call \in adapterPass.inFlight, outcome \in {"ok", "failed"} :
       adapterPass' = [adapterPass EXCEPT
                         !.inFlight = @ \ {call},
                         !.settled = Append(@, [call |-> call, outcome |-> outcome])]
  /\ UNCHANGED <<plannerVars, textVars, matchVars, parseVars, cacheVars, uploadVars, storeVars, speechVars, passVars>>

\* The loop is over.
adapterPassReturns ==
  /\ ~adapterPass.returned
  /\ adapterPass.issued = adapterPass.items
  /\ awaited(adapterPass.inFlight)
  /\ adapterPass' = [adapterPass EXCEPT !.returned = TRUE]
  /\ UNCHANGED <<plannerVars, textVars, matchVars, parseVars, cacheVars, uploadVars, storeVars, speechVars, passVars>>

NextAdapterPass == adapterCallIssued \/ adapterCallSettled \/ adapterPassReturns

SpecAdapterPass == InitAdapterPass /\ [][NextAdapterPass]_vars

(***************************************************************************)
(* Claims about the audio segment planner.                                 *)
(***************************************************************************)
\* C7: for D > 0 and N >= 1 the fixed-count planner returns exactly N
\* segments, the first starting at 0, each starting where the previous one
\* ends, none of negative length, and the last ending exactly at D.
C7_FixedCountTilesDuration ==
  (/\ planCall.op = "segmentByTextParagraphs"
   /\ planCall.returned
   /\ planCall.paragraphCount >= 1
   /\ FLt(Zero, planCall.totalDuration))
  => /\ Len(segments) = planCall.paragraphCount
     /\ segments[1].startTime = Zero
     /\ \A i \in 1..(Len(segments) - 1) :
          segments[i + 1].startTime = segments[i].endTime
     /\ \A i \in 1..Len(segments) : FLe(segments[i].startTime, segments[i].endTime)
     /\ segments[Len(segments)].endTime = planCall.totalDuration

\* C8: the planner returns no segment when the target count or the total
\* duration is 0, and exactly one segment [0, D] when D > 0 and N = 1.
C8_DegeneratePlans ==
  planCall.returned
  => /\ (planCall.op = "segmentByTextParagraphs"
         /\ (planCall.paragraphCount = 0 \/ planCall.totalDuration = Zero))
        => segments = << >>
     /\ (planCall.op = "segmentByTime" /\ planCall.totalDuration = Zero)
        => segments = << >>
     /\ (planCall.op = "segmentByTextParagraphs"
         /\ planCall.paragraphCount = 1 /\ FLt(Zero, planCall.totalDuration))
        => segments = <<[startTime |-> Zero, endTime |-> planCall.totalDuration,
                         duration |-> planCall.totalDuration]>>

\* C9: for D > 0 and L > 0 the fixed-length planner returns exactly
\* ceil(D / L) segments, i.e. the k with (k-1)*L < D <= k*L, the products
\* taken as the program's own arithmetic takes them.
C9_FixedLengthCount ==
  (planCall.op = "segmentByTime" /\ planCall.returned)
  => LET D == planCall.totalDuration
         L == planCall.segmentDuration
         k == Len(segments)
     IN  /\ k >= 1
         /\ FLt(FMul(FromInt(k - 1), L), D)
         /\ FLe(D, FMul(FromInt(k), L))

(***************************************************************************)
(* Claims about the matcher.  P and S are the counts the match ran on; the *)
(* ratio |P - S| / max(P, S) is compared as a rational number.             *)
(***************************************************************************)
P == Len(paragraphs)

S == Len(audioSegments)

MatchEnded == matchCall.status \in {"returned", "threw"}

NothingFailed == matchCall.extractFails = {} /\ matchCall.updateFails = {}

\* |P - S| / max(P, S) > num / den, for max(P, S) >= 1.
RatioAbove(num, den) == den * AbsDiff(P, S) > num * MaxInt(P, S)

\* The strategy that produced a pairing or an audio reference, read off its URL.
UrlKind(strategy) ==
  CASE strategy = "oneToOne" -> "segment"
    [] strategy = "merge" -> "merged_segment"
    [] OTHER -> "split_segment"

\* C1: with S > P and a ratio above 0.2 and nothing failing, the merge
\* strategy returns exactly P pairings, one per paragraph, in order.
C1_MergePairsEveryParagraph ==
  (MatchEnded /\ P >= 1 /\ S > P /\ RatioAbove(1, 5) /\ NothingFailed)
  => /\ Len(processedAudioSegments) = P
     /\ \A i \in 1..P : processedAudioSegments[i].order = i

\* C2: the match runs exactly one strategy: one-to-one iff the ratio is at
\* most 0.2, else merge iff S > P, else split; every pairing returned and
\* every audio reference attached comes from that strategy.
C2_StrategyByRatio ==
  (MatchEnded /\ MaxInt(P, S) >= 1)
  => LET expected == IF ~RatioAbove(1, 5) THEN "oneToOne"
                     ELSE IF S > P THEN "merge" ELSE "split"
     IN  /\ strategyRun = expected
         /\ \A i \in 1..Len(processedAudioSegments) :
              processedAudioSegments[i].segmentAudioUrl.kind = UrlKind(expected)
         /\ \A i \in 1..P :
              paragraphs[i].audioUrl.kind \in {"none", UrlKind(expected)}

C2_Witness ==
  /\ matchCall.status = "returned"
  /\ strategyRun = "oneToOne"
  /\ P # S
  /\ 5 * AbsDiff(P, S) = MaxInt(P, S)
  /\ Len(processedAudioSegments) >= 1

\* C3: with a ratio of at most 0.2 and nothing failing, the match returns
\* exactly min(P, S) pairings; pairing i has order i, carries the start, end
\* and duration of segment i and is attached to paragraph i; paragraphs
\* beyond min(P, S) keep no audio, and no error is raised.
C3_OneToOnePairsByIndex ==
  (MatchEnded /\ P >= 1 /\ S >= 1 /\ ~RatioAbove(1, 5) /\ NothingFailed)
  => /\ matchCall.status = "returned"
     /\ Len(processedAudioSegments) = MinInt(P, S)
     /\ \A i \in 1..MinInt(P, S) :
          /\ processedAudioSegments[i].order = i
          /\ processedAudioSegments[i].startTime = audioSegments[i].startTime
          /\ processedAudioSegments[i].endTime = audioSegments[i].endTime
          /\ processedAudioSegments[i].duration = audioSegments[i].duration
          /\ paragraphs[i].audioUrl = processedAudioSegments[i].segmentAudioUrl
          /\ paragraphs[i].audioUrl # NoUrl
          /\ paragraphs[i].audioDuration = audioSegments[i].duration
     /\ \A i \in (MinInt(P, S) + 1)..P :
          /\ paragraphs[i].audioUrl = NoUrl
          /\ paragraphs[i].audioDuration = NoDuration

C3_Witness ==
  /\ matchCall.status = "returned"
  /\ NothingFailed
  /\ strategyRun = "oneToOne"
  /\ P > S
  /\ Len(processedAudioSegments) = S
  /\ paragraphs[P].audioUrl = NoUrl

\* C4: with P > S, a ratio above 0.2 and nothing failing, the split strategy
\* returns exactly P pairings, the i-th attached to paragraph i.
C4_SplitPairsEveryParagraph ==
  (MatchEnded /\ S >= 1 /\ P > S /\ RatioAbove(1, 5) /\ NothingFailed)
  => /\ matchCall.status = "returned"
     /\ Len(processedAudioSegments) = P
     /\ \A i \in 1..P :
          /\ processedAudioSegments[i].order = i
          /\ paragraphs[i].audioUrl = processedAudioSegments[i].segmentAudioUrl
          /\ paragraphs[i].audioUrl # NoUrl

C4_Witness ==
  /\ matchCall.status = "returned"
  /\ NothingFailed
  /\ strategyRun = "split"
  /\ S >= 2
  /\ P % S # 0
  /\ Len(processedAudioSegments) = P

\* The pairings returned for the paragraphs of segment j's group (1-based j),
\* the groups being those of ceil(P / S) consecutive paragraphs.
GroupOf(j) ==
  LET size == (P + S - 1) \div S
  IN  SelectSeq(processedAudioSegments,
                LAMBDA a : (j - 1) * size < a.order /\ a.order <= j * size)

\* C5: in the split strategy the sub-ranges of each segment's group are
\* back-to-back, start at the segment's start and end at the segment's end.
C5_SplitGroupsRebuildSegments ==
  (MatchEnded /\ S >= 1 /\ P > S /\ RatioAbove(1, 5) /\ NothingFailed)
  => \A j \in 1..S :
       LET g == GroupOf(j)
       IN  /\ g # << >>
           /\ g[1].startTime = audioSegments[j].startTime
           /\ \A k \in 1..(Len(g) - 1) : g[k + 1].startTime = g[k].endTime
           /\ g[Len(g)].endTime = audioSegments[j].endTime

\* C6: the flag returned is true iff the ratio is above 0.3, whatever
\* strategy ran and whatever failed; so a ratio in (0.2, 0.3] runs merge or
\* split with the flag false.
C6_FlagIffRatioAboveThreeTenths ==
  matchCall.status = "returned"
  => /\ needsManualAdjustment <=> (MaxInt(P, S) >= 1 /\ RatioAbove(3, 10))
     /\ (MaxInt(P, S) >= 1 /\ RatioAbove(1, 5) /\ ~RatioAbove(3, 10))
        => (strategyRun \in {"merge", "split"} /\ ~needsManualAdjustment)

C6_Witness ==
  /\ matchCall.status = "returned"
  /\ matchCall.extractFails # {}
  /\ RatioAbove(1, 5)
  /\ ~RatioAbove(3, 10)
  /\ strategyRun = "merge"
  /\ ~needsManualAdjustment

\* The pairings (by paragraph order) the strategy that ran has to attempt:
\* min(P, S) by index, one per paragraph with a non-empty group of
\* ceil(S / P) segments, or one per paragraph.
PairingsToAttempt ==
  CASE strategyRun = "oneToOne" -> 1..MinInt(P, S)
    [] strategyRun = "merge" -> {i \in 1..P : (i - 1) * ((S + P - 1) \div P) < S}
    [] OTHER -> 1..P

\* C20: whatever the strategy, a pairing whose extraction or paragraph update
\* fails is left out of the output, every other pairing is still returned,
\* and the match does not end with an error.
C20_FailedPairingIsOnlySkipped ==
  MatchEnded
  => /\ matchCall.status = "returned"
     /\ {processedAudioSegments[k].order : k \in 1..Len(processedAudioSegments)}
          = PairingsToAttempt \ (matchCall.extractFails \cup matchCall.updateFails)

(***************************************************************************)
(* Further claims about the matcher's output.                              *)
(***************************************************************************)
\* C25: in the list a match returns, the paragraph a pairing's audio was
\* attached to is the paragraph numbered by the pairing's order; the orders
\* lie in 1..P and strictly increase along the list.
C25_OrdersNameParagraphs ==
  matchCall.status = "returned"
  => /\ \A k \in 1..Len(processedAudioSegments) :
          /\ processedAudioSegments[k].order \in 1..P
          /\ paragraphs[processedAudioSegments[k].order].orderNum
               = processedAudioSegments[k].order
          /\ paragraphs[processedAudioSegments[k].order].audioUrl
               = processedAudioSegments[k].segmentAudioUrl
          /\ paragraphs[processedAudioSegments[k].order].audioFileName
               = processedAudioSegments[k].id
     /\ \A k \in 1..(Len(processedAudioSegments) - 1) :
          processedAudioSegments[k].order < processedAudioSegments[k + 1].order
     /\ \A i \in 1..P :
          paragraphs[i].audioUrl # NoUrl
            => \E k \in 1..Len(processedAudioSegments) : processedAudioSegments[k].order = i

C25_Witness ==
  /\ matchCall.status = "returned"
  /\ strategyRun = "split"
  /\ matchCall.extractFails = {1}
  /\ Len(processedAudioSegments) >= 3
  /\ processedAudioSegments[1].order = 2

\* The segments (1-based) merged for the paragraph of the given order.
MergedGroup(order) ==
  {s \in 1..S : (order - 1) * ((S + P - 1) \div P) < s /\ s <= order * ((S + P - 1) \div P)}

\* The returned pairings partition the segment list into the groups of
\* their paragraphs and their ranges tile the span of the segments.
MergedRangesTile ==
  /\ \A s \in 1..S :
       Cardinality({k \in 1..Len(processedAudioSegments) :
                      s \in MergedGroup(processedAudioSegments[k].order)}) = 1
  /\ \A k \in 1..Len(processedAudioSegments) :
       /\ MergedGroup(processedAudioSegments[k].order) # {}
       /\ \A s \in MergedGroup(processedAudioSegments[k].order) :
            /\ FLe(processedAudioSegments[k].startTime, audioSegments[s].startTime)
            /\ FLe(audioSegments[s].endTime, processedAudioSegments[k].endTime)
       /\ \E s \in MergedGroup(processedAudioSegments[k].order) :
            processedAudioSegments[k].startTime = audioSegments[s].startTime
       /\ \E s \in MergedGroup(processedAudioSegments[k].order) :
            processedAudioSegments[k].endTime = audioSegments[s].endTime
       /\ FLe(processedAudioSegments[k].startTime, processedAudioSegments[k].endTime)
  /\ \A k \in 1..(Len(processedAudioSegments) - 1) :
       processedAudioSegments[k + 1].startTime = processedAudioSegments[k].endTime
  /\ processedAudioSegments # << >>
  /\ processedAudioSegments[1].startTime = audioSegments[1].startTime
  /\ processedAudioSegments[Len(processedAudioSegments)].endTime = audioSegments[S].endTime

\* C26: when the merge strategy runs for a document of at least one
\* paragraph and nothing fails, the groups of the returned pairings
\* partition the segment list, each pairing's range runs from its group's
\* first start to its group's last end, each range starts where the
\* previous one ends, and the ranges span from the first segment's start to
\* the last segment's end.
C26_MergedGroupsPartition ==
  (matchCall.status = "returned" /\ strategyRun = "merge" /\ NothingFailed /\ P >= 1)
  => MergedRangesTile

C26_Witness ==
  /\ matchCall.status = "returned"
  /\ strategyRun = "merge"
  /\ NothingFailed
  /\ P >= 3
  /\ S % P # 0
  /\ Len(processedAudioSegments) < P

\* C26 as stated, for every document: also for one without paragraphs,
\* where the merge strategy runs and returns no pairing at all.
C26_MergedGroupsPartitionAnyDocument ==
  (matchCall.status = "returned" /\ strategyRun = "merge" /\ NothingFailed)
  => MergedRangesTile

\* C27: in a one-to-one match in which only extractions fail, the pairings
\* returned are those of the segments whose extraction succeeded; pairing i
\* carries the range of segment i and is attached to paragraph i, and the
\* paragraph of a failed extraction keeps no audio.
C27_FailedExtractionShiftsNothing ==
  (MatchEnded /\ strategyRun = "oneToOne" /\ matchCall.updateFails = {})
  => /\ matchCall.status = "returned"
     /\ {processedAudioSegments[k].order : k \in 1..Len(processedAudioSegments)}
          = (1..MinInt(P, S)) \ matchCall.extractFails
     /\ \A k \in 1..Len(processedAudioSegments) :
          /\ processedAudioSegments[k].startTime
               = audioSegments[processedAudioSegments[k].order].startTime
          /\ processedAudioSegments[k].endTime
               = audioSegments[processedAudioSegments[k].order].endTime
          /\ processedAudioSegments[k].duration
               = audioSegments[processedAudioSegments[k].order].duration
          /\ paragraphs[processedAudioSegments[k].order].audioUrl
               = processedAudioSegments[k].segmentAudioUrl
          /\ paragraphs[processedAudioSegments[k].order].audioDuration
               = audioSegments[processedAudioSegments[k].order].duration
     /\ \A i \in (1..P) \cap matchCall.extractFails : paragraphs[i].audioUrl = NoUrl

C27_Witness ==
  /\ matchCall.status = "returned"
  /\ strategyRun = "oneToOne"
  /\ matchCall.extractFails = {1}
  /\ matchCall.updateFails = {}
  /\ Len(processedAudioSegments) >= 2
  /\ processedAudioSegments[1].order = 2
  /\ paragraphs[1].audioUrl = NoUrl

(***************************************************************************)
(* Claims about the text normaliser.                                       *)
(***************************************************************************)
\* C10: cleanText is idempotent: cleaning a cleaned text changes nothing.
C10_CleanTextIdempotent ==
  textCall.returned => cleanText(cleanContent) = cleanContent

(***************************************************************************)
(* Claims about the parser.                                                *)
(***************************************************************************)
RECURSIVE WordTotal(_)
WordTotal(paras) ==
  IF paras = << >> THEN 0 ELSE Head(paras).wordCount + WordTotal(Tail(paras))

\* C11: the word counts of the paragraphs of a parsed document add up to the
\* document's word count, which is the number of words of the whole cleaned
\* text, and the lengths of their sentence lists add up to its sentence count.
C11_CountsAddUp ==
  parseCall.returned
  => /\ parsed.wordCount = countWords(cleanText(parseCall.text))
     /\ WordTotal(parsed.paragraphs) = parsed.wordCount
     /\ SentenceTotal(parsed.paragraphs) = parsed.sentenceCount

C11_Witness ==
  /\ parseCall.returned
  /\ Len(parsed.paragraphs) = 2
  /\ parsed.wordCount = 2
  /\ parsed.sentenceCount = 2

\* C19: parsing the empty text or a text of white space only returns a
\* document with no paragraph and with all three counts 0.
C19_BlankTextParsesToEmptyDocument ==
  (parseCall.returned /\ \A i \in 1..Len(parseCall.text) : parseCall.text[i] \in WhiteSpace)
  => /\ parsed.paragraphs = << >>
     /\ parsed.paragraphCount = 0
     /\ parsed.wordCount = 0
     /\ parsed.sentenceCount = 0

C19_Witness ==
  /\ parseCall.returned
  /\ Len(parseCall.text) = MaxBlankLen
  /\ \A i \in 1..Len(parseCall.text) : parseCall.text[i] \in WhiteSpace
  /\ \E i \in 1..Len(parseCall.text) : parseCall.text[i] = "\t"
  /\ parsed.paragraphCount = 0

(***************************************************************************)
(* Claims about the cache.                                                 *)
(***************************************************************************)
\* C17: after any sequence of set, get, delete and clear at any clock values
\* the cache never holds more than maxItems entries.
C17_SizeNeverExceedsMaxItems == Len(cache) <= maxItems

(***************************************************************************)
(* Claims about the storage upload.                                        *)
(***************************************************************************)
UploadEnded == uploadCall.status \in {"returned", "threw"}

AllAttemptsFailed == Len(sent) = 3 /\ \A i \in 1..Len(sent) : sent[i] # "ok"

UploadAttemptsBounded ==
  /\ Len(sent) <= 3
  /\ \A i \in 1..(Len(sent) - 1) : sent[i] # "ok"
  /\ (sent # << >> /\ sent[Len(sent)] = "ok")
       => uploadCall.status = "returned" /\ uploaded.url = S3Url(uploadCall.key)
  /\ uploadCall.status = "returned" => sent[Len(sent)] = "ok"
  /\ uploadCall.status = "threw" <=> AllAttemptsFailed

\* C18: uploadToS3 makes at most 3 attempts, returns the URL at the first
\* successful attempt without a further one, throws if and only if all 3
\* attempts failed, and always ends.
C18_UploadRetriesBounded == []UploadAttemptsBounded /\ <>UploadEnded

C18_Witness ==
  /\ uploadCall.status = "returned"
  /\ Len(sent) = 3
  /\ sent[1] # "ok" /\ sent[2] # "ok"

(***************************************************************************)
(* Claims about the document store.                                        *)
(***************************************************************************)
\* The rows of the document the last call created or named.
CallRows == store.documents[storeResult.documentId].paragraphs

HasAudio(paragraph) == paragraph.audioUrl # NoFile

\* C12: the paragraphs of every stored document carry the order indices
\* 1..N in sequence, and their id, content, word count and sentences are
\* those the parser gave when the document was saved, whatever synthesis and
\* matching attached since.
C12_OrderIndicesContiguous ==
  \A d \in DOMAIN store.documents :
    /\ Len(store.documents[d].paragraphs) = store.documents[d].paragraphCount
    /\ \A i \in 1..Len(store.documents[d].paragraphs) :
         /\ store.documents[d].paragraphs[i].orderNum = i
         /\ \E parsedParagraph \in {splitIntoParagraphs(store.documents[d].content)[i]} :
              /\ store.documents[d].paragraphs[i].id = parsedParagraph.id
              /\ store.documents[d].paragraphs[i].content = parsedParagraph.content
              /\ store.documents[d].paragraphs[i].wordCount = parsedParagraph.wordCount
              /\ store.documents[d].paragraphs[i].sentences = parsedParagraph.sentences

C12_Witness ==
  /\ DOMAIN store.documents = {1, 2}
  /\ Len(store.documents[1].paragraphs) = 2
  /\ store.documents[1].paragraphs[2].audioUrl.kind = "paragraph"
  /\ Len(store.documents[2].paragraphs) = 2
  /\ store.documents[2].paragraphs[2].audioUrl.kind = "split_segment"

\* C13: generateAudioForParagraphs calls generateSpeech for every paragraph
\* in order, whichever synthesis calls fail; a paragraph whose synthesis
\* failed is left without audio, every other paragraph gets audio (when its
\* row update does not fail), and processDocumentWithAudio sees no exception
\* from the batch.
C13_BatchSurvivesFailures ==
  (storeCall.op = "processDocumentWithAudio" /\ storeCall.generateAudio
     /\ storeCall.persistenceFails # "create")
  => /\ storeResult.attempted = [i \in 1..Len(CallRows) |-> i]
     /\ storeResult.synthesisFailed \subseteq storeCall.fails[1]
     /\ \A i \in 1..Len(CallRows) :
          /\ i \in storeResult.synthesisFailed => ~HasAudio(CallRows[i])
          /\ (i \notin storeResult.synthesisFailed /\ i \notin storeCall.fails[2])
               => HasAudio(CallRows[i])
     /\ storeCall.persistenceFails = "none" => storeResult.outcome = "returned"

C13_Witness ==
  /\ storeCall.op = "processDocumentWithAudio"
  /\ storeResult.outcome = "returned"
  /\ storeResult.synthesisFailed = {1}
  /\ storeResult.attempted = <<1, 2>>
  /\ ~HasAudio(CallRows[1])
  /\ HasAudio(CallRows[2])

\* C14: in the document processDocumentWithAudio or matchDocumentWithAudio
\* returns, a paragraph has an audio reference if and only if the call
\* attached audio to that paragraph.
C14_ResponseTellsAttached ==
  (storeCall.op \in {"processDocumentWithAudio", "matchDocumentWithAudio"}
     /\ storeResult.outcome = "returned")
  => /\ Len(storeResult.paragraphs) = Len(CallRows)
     /\ \A i \in 1..Len(CallRows) :
          HasAudio(storeResult.paragraphs[i]) <=> HasAudio(CallRows[i])

NotFoundOutcomes == {"DocumentNotFound", "SpeechNotFound", "false"}

LookupOps == {"getDocumentById", "deleteDocument", "getSpeechById", "deleteSpeech"}

HasRecord(op, id) ==
  IF op \in {"getDocumentById", "deleteDocument"} THEN id \in DOMAIN store.documents
  ELSE \E r \in store.speechRecords : r.id = id

C16_DeleteLeavesNothing ==
  (storeCall.op = "deleteDocument" /\ storeResult.outcome = "true")
  => /\ storeCall.id \notin DOMAIN store.documents
     /\ \A file \in store.audioFiles : file.doc # storeCall.id

(***************************************************************************)
(* Claims about the time ranges of the planner and of the matcher.         *)
(***************************************************************************)
\* 0 <= start <= end <= total and duration = end - start.
RangeWithin(range, total) ==
  /\ FLe(Zero, range.startTime)
  /\ FLe(range.startTime, range.endTime)
  /\ FLe(range.endTime, total)
  /\ range.duration = FSub(range.endTime, range.startTime)

PlannedRangesWithin ==
  planCall.returned
  => \A i \in 1..Len(segments) : RangeWithin(segments[i], planCall.totalDuration)

MatchedRangesWithin ==
  MatchEnded
  => /\ \A i \in 1..S :
          RangeWithin(audioSegments[i], getAudioInfo(matchCall.fileSize).duration)
     /\ \A k \in 1..Len(processedAudioSegments) :
          RangeWithin(processedAudioSegments[k], getAudioInfo(matchCall.fileSize).duration)

\* C23: every range a planner strategy returns and every range of a pairing
\* the matcher returns lies within the audio, start before end, and carries
\* the difference of its ends as its duration.
C23_RangesWithinAudio == PlannedRangesWithin /\ MatchedRangesWithin

C23_Witness ==
  /\ matchCall.status = "returned"
  /\ strategyRun = "split"
  /\ S >= 2
  /\ Len(processedAudioSegments) > S
  /\ NothingFailed

(***************************************************************************)
(* Claims about the eviction of CacheService.set.                          *)
(***************************************************************************)
\* The entries of the cache whose timestamp no stored entry undercuts.
OldestEntries(entries) ==
  {i \in 1..Len(entries) : \A j \in 1..Len(entries) : entries[i].timestamp <= entries[j].timestamp}

\* C24: a set on a cache of maxItems or more entries leaves the cache it
\* found without exactly one entry of the smallest timestamp, and with the
\* item it stores.
C24_SetEvictsOneOldest ==
  [][(cacheCall'.op = "set" /\ Len(cache) >= maxItems)
     => \E i \in OldestEntries(cache) :
          \E k \in 1..Len(cache') :
            /\ cache'[k].key = cacheCall'.key
            /\ cache' = MapSet(RemoveAt(cache, i), cache'[k])]_vars

(***************************************************************************)
(* Claims about the audio files the stored paragraphs refer to.            *)
(***************************************************************************)
\* C28: whatever documents were processed and deleted, the audio reference
\* of every paragraph of every stored document is a file of the audio
\* directory.
C28_ReferencesPointToFiles ==
  \A d \in DOMAIN store.documents :
    \A i \in 1..Len(store.documents[d].paragraphs) :
      HasAudio(store.documents[d].paragraphs[i])
        => store.documents[d].paragraphs[i].audioUrl \in store.audioFiles

(***************************************************************************)
(* Claims about generateSpeech.                                            *)
(***************************************************************************)
\* C29: a generateSpeech call that returns answers with the text, the voice
\* and the format it was asked for.
C29_AnswersTheRequest ==
  \A client \in SpeechClients :
    speechCalls[client].pc = "returned"
    => /\ speechCalls[client].response.originalText = speechCalls[client].text
       /\ speechCalls[client].response.voiceId = speechCalls[client].voiceId
       /\ speechCalls[client].response.outputFormat = speechCalls[client].outputFormat

\* C30: whatever the interleaving of the calls, the database holds at most
\* one speech record of a cache key.
C30_OneRecordPerCacheKey ==
  \A r \in store.speechRecords : \A q \in store.speechRecords :
    r.cacheKey = q.cacheKey => r = q

(***************************************************************************)
(* Claims about the passes.                                                *)
(***************************************************************************)
\* An iteration of segmentByTime's loop moves `start` towards the duration
\* the loop ends at, and an iteration of the matcher's loop moves its index
\* towards the bound.
LoopsAdvance ==
  /\ segmentPass'.count # segmentPass.count
       => segmentPass.duration - segmentPass'.start < segmentPass.duration - segmentPass.start
  /\ segmentPass'.i # segmentPass.i
       => /\ segmentPass'.i > segmentPass.i
          /\ segmentPass'.i <= matchLoopLength(segmentPass.strategy, segmentPass.paragraphCount,
                                               segmentPass.count)

\* C21: every 'time' match request, whatever its segmentDuration field,
\* gets through segmentByTime and through the matcher: every iteration of
\* the two loops advances towards the loop's exit, and the request
\* completes.
C21_PassRunsToCompletion == [][LoopsAdvance]_vars /\ <>(segmentPass.status = "completed")

\* C22: in a pass at most one adapter call is in flight, it is the call of
\* the item after those settled, and the calls settle in the order of the
\* items, failed or not.
C22_AdapterCallsSequential ==
  /\ Cardinality(adapterPass.inFlight) <= 1
  /\ \A call \in adapterPass.inFlight : call = Len(adapterPass.settled) + 1
  /\ \A k \in 1..Len(adapterPass.settled) : adapterPass.settled[k].call = k
  /\ adapterPass.returned
       => adapterPass.inFlight = {} /\ Len(adapterPass.settled) = adapterPass.items

C22_Witness ==
  /\ adapterPass.pass = "generateSegmentAudios"
  /\ adapterPass.inFlight = {3}
  /\ adapterPass.settled[1].outcome = "failed"
  /\ adapterPass.settled[2].outcome = "ok"

====
